---------------------------- MODULE Spec2Model ----------------------------
(***************************************************************************)
(* Verification model of the Cairo traffic optimisation engines:           *)
(*   infrastructure.py      create_mst_network                             *)
(*   traffic_optimization.py optimize_traffic_flow                         *)
(*   emergency_response.py  plan_emergency_routes                          *)
(*   public_transit.py      optimize_schedule_dp, design_integrated_network*)
(*                                                                         *)
(* Numbers.  The engines compute in floating point; the model computes in  *)
(* exact integers on scaled units, and draws its inputs from sets on which *)
(* every division of the code is exact:                                    *)
(*   - road weights of create_mst_network are in 1/WScale minutes;         *)
(*   - travel times of the routers are in 1/TScale minutes;                *)
(*   - coordinates are in 1/100 degree and lie on one parallel (y = 0),    *)
(*     so the euclidean distance of two nodes is |dx| exactly.             *)
(* Node ids are strings in the program ("1".."9", "F1"..); the model uses  *)
(* integers ordered like those strings (areas 1..9 below facilities 11..). *)
(***************************************************************************)
EXTENDS Integers, Sequences, FiniteSets, TLC

VARIABLES mst, router, emerg, design, calls, preempt

vars == <<mst, router, emerg, design, calls, preempt>>

None == "None"

Idle == [pc |-> "idle"]

(***************************************************************************)
(* Generic helpers                                                         *)
(***************************************************************************)
Min(a, b) == IF a <= b THEN a ELSE b

Max(a, b) == IF a >= b THEN a ELSE b

Abs(x) == IF x < 0 THEN -x ELSE x

Range(s) == {s[i] : i \in DOMAIN s}

RECURSIVE SumSeq(_)
SumSeq(s) == IF s = <<>> THEN 0 ELSE Head(s) + SumSeq(Tail(s))

RECURSIVE SumSet(_, _)
SumSet(S, f) ==
  IF S = {} THEN 0
  ELSE LET x == CHOOSE y \in S : TRUE IN f[x] + SumSet(S \ {x}, f)

\* All orderings of a finite set, as sequences without repetition.
Perms(S) ==
  {p \in [1..Cardinality(S) -> S] : \A i, j \in DOMAIN p : i # j => p[i] # p[j]}

\* Python's sorted(): a stable sort.  lt[a][b] is "key(a) < key(b)".
RECURSIVE StableSort(_, _)
StableSort(s, lt) ==
  IF s = <<>> THEN <<>>
  ELSE LET n    == Len(s)
           init == StableSort(SubSeq(s, 1, n - 1), lt)
           x    == s[n]
       IN SelectSeq(init, LAMBDA e : ~lt[x][e]) \o <<x>>
            \o SelectSeq(init, LAMBDA e : lt[x][e])

\* math.sqrt / scipy's euclidean on the squares the model's coordinates give.
ISqrt(n) == CHOOSE r \in 0..n : r * r = n


(***************************************************************************)
(* Graphs (networkx.Graph): a map from an undirected edge {u, v} to its    *)
(* attribute record.  add_edge on a present edge overwrites its attributes.*)
(***************************************************************************)
EdgeKey(u, v) == {u, v}

AddEdge(G, u, v, data) ==
  [e \in DOMAIN G \cup {EdgeKey(u, v)} |-> IF e = EdgeKey(u, v) THEN data ELSE G[e]]

Neighbors(E, n) == {m \in UNION E : {n, m} \in E /\ m # n}

\* nx.node_connected_component: the nodes reachable from n over the edges E.
RECURSIVE Reach(_, _)
Reach(E, S) ==
  LET T == S \cup UNION {e \in E : e \cap S # {}}
  IN IF T = S THEN S ELSE Reach(E, T)

node_connected_component(E, n) == Reach(E, {n})

(***************************************************************************)
(* create_mst_network (infrastructure.py)                                  *)
(***************************************************************************)
\* Bounds of the inputs.
MaxCoord == 2
MaxBudgetSteps == 2

\* 1/WScale minute is the unit of road weights: 60 * WScale is divisible by
\* every speed the model's inputs produce (36, 42, 48, 54 km/h).
WScale == 36 * 21

FacilityTypes == {"Medical", "Airport"}
\* est_cost = dist * 20: 20M EGP per km; the costs and budgets of the model are
\* multiples of it.
RatePerKm == 20
Costs == {0, RatePerKm, 2 * RatePerKm}
\* max_budget=None: no cap.
NoBudget == -1
Budgets == {NoBudget} \cup {k * RatePerKm : k \in 0..MaxBudgetSteps}

\* The tables create_mst_network is called with.
NeighborhoodTables ==
  {<<[ID |-> 1, Population |-> 2000000, X |-> 0],
     [ID |-> 2, Population |-> 2000000, X |-> 1],
     [ID |-> 3, Population |-> 0, X |-> x3]>> : x3 \in 0..MaxCoord}

FacilityTables == {<<[ID |-> 11, Type |-> t, X |-> 0]>> : t \in FacilityTypes}

ExistingCatalogue ==
  <<[FromID |-> 1, ToID |-> 2, Distance |-> 2, Condition |-> 10],
    [FromID |-> 2, ToID |-> 11, Distance |-> 1, Condition |-> 7]>>

ExistingTables ==
  {SelectSeq(ExistingCatalogue, LAMBDA r : r \in S) : S \in SUBSET Range(ExistingCatalogue)}

\* potential_roads=None is [given |-> FALSE]; a table is [given |-> TRUE, rows |-> ..].
PotentialTables ==
  {[given |-> FALSE, rows |-> <<>>]} \cup
  {LET r13 == IF c13 < 0 THEN <<>>
              ELSE <<[FromID |-> 1, ToID |-> 3, Distance |-> 3, Cost |-> c13]>>
       r23 == IF c23 < 0 THEN <<>>
              ELSE <<[FromID |-> 3, ToID |-> 2, Distance |-> 1, Cost |-> c23]>>
       r3F == IF f THEN <<[FromID |-> 11, ToID |-> 3, Distance |-> 2, Cost |-> RatePerKm]>>
              ELSE <<>>
       r12 == <<[FromID |-> 2, ToID |-> 1, Distance |-> 1, Cost |-> RatePerKm]>>
   IN [given |-> TRUE, rows |-> r13 \o r23 \o r3F \o r12] :
        c13 \in {-1, 0, 2 * RatePerKm}, c23 \in Costs \cup {-1}, f \in BOOLEAN}

\* avg_speed = 60 * (1 - (condition_factor * 0.5)), condition_factor = (11 - c) / 5
AvgSpeed(condition) == 60 - 6 * (11 - condition)

\* travel_time = (distance / avg_speed) * 60, in 1/WScale minutes
TravelTime(distance, avg_speed) == (distance * 60 * WScale) \div avg_speed

NodeRows(in) == in.neighborhoods \o in.facilities

NodeOrder(in) == [i \in DOMAIN NodeRows(in) |-> NodeRows(in)[i].ID]

IsNeighborhood(in, n) == \E i \in DOMAIN in.neighborhoods : in.neighborhoods[i].ID = n

IsFacility(in, n) == \E i \in DOMAIN in.facilities : in.facilities[i].ID = n

\* G.nodes[n].get('population', 0)
PopulationOf(in, n) ==
  IF IsNeighborhood(in, n)
  THEN (CHOOSE r \in Range(in.neighborhoods) : r.ID = n).Population
  ELSE 0

FacilityType(in, n) ==
  IF IsFacility(in, n) THEN (CHOOSE r \in Range(in.facilities) : r.ID = n).Type ELSE ""

PosOf(in, n) == (CHOOSE r \in Range(NodeRows(in)) : r.ID = n).X

\* The graph of existing roads (lines 51-65).
RECURSIVE ExistingGraph(_, _)
ExistingGraph(roads, G) ==
  IF roads = <<>> THEN G
  ELSE LET road == Head(roads)
           travel_time == TravelTime(road.Distance, AvgSpeed(road.Condition))
       IN ExistingGraph(Tail(roads),
            AddEdge(G, road.FromID, road.ToID,
                    [weight |-> travel_time, time_cost |-> travel_time,
                     distance |-> road.Distance, road_type |-> "existing", cost |-> 0]))

EmptyGraph == [e \in {} |-> 0]

\* population_served of a potential road (lines 89-96)
PopulationServed(in, road) ==
  (IF IsNeighborhood(in, road.FromID) THEN PopulationOf(in, road.FromID) ELSE 0)
  + (IF IsNeighborhood(in, road.ToID) THEN PopulationOf(in, road.ToID) ELSE 0)

\* modified_time = travel_time * population_factor * priority_factor with
\* population_weight 0.5 and facility_priority 1.5 (lines 87-113):
\*   population_factor = 1 / (1 + 0.5 * served / 1000000) = 2000 / ((2000000 + served) / 1000)
\*   priority_factor   = 1, 1 / 1.5 = 2/3 or 1 / (1.5 * 1.5) = 4/9
ModifiedTime(in, road) ==
  LET travel_time == TravelTime(road.Distance, 42)
      served == PopulationServed(in, road)
      withPop == IF served > 0
                 THEN (travel_time * 2000) \div ((2000000 + served) \div 1000)
                 ELSE travel_time
      critical(n) == IsFacility(in, n) /\ FacilityType(in, n) \in {"Medical", "Transit Hub"}
  IN IF IsFacility(in, road.FromID) \/ IsFacility(in, road.ToID)
     THEN IF critical(road.FromID) \/ critical(road.ToID)
          THEN (withPop * 4) \div 9
          ELSE (withPop * 2) \div 3
     ELSE withPop

\* Lines 83-127: G_potential and the list `edges`, one potential road at a time.
RECURSIVE AddPotential(_, _, _)
AddPotential(in, roads, acc) ==
  IF roads = <<>> THEN acc
  ELSE LET road == Head(roads)
       IN IF EdgeKey(road.FromID, road.ToID) \in DOMAIN acc.G_potential
          THEN AddPotential(in, Tail(roads), acc)
          ELSE AddPotential(in, Tail(roads),
                 [G_potential |->
                    AddEdge(acc.G_potential, road.FromID, road.ToID,
                            [weight |-> ModifiedTime(in, road),
                             time_cost |-> TravelTime(road.Distance, 42),
                             distance |-> road.Distance, road_type |-> "potential",
                             cost |-> road.Cost]),
                  edges |-> Append(acc.edges,
                              [weight |-> ModifiedTime(in, road), u |-> road.FromID,
                               v |-> road.ToID, pop_served |-> PopulationServed(in, road)])])


\* kruskal (lines 130-159).  parent/rank are a union-find: find(u) # find(v)
\* says that u and v are in different trees of the edges taken so far.
KruskalLess(edges) ==
  [a \in Range(edges) |-> [b \in Range(edges) |->
      \/ a.weight < b.weight
      \/ a.weight = b.weight /\ -a.pop_served < -b.pop_served]]

RECURSIVE KruskalLoop(_, _, _, _)
KruskalLoop(G_potential, sorted_edges, taken, mst_edges) ==
  IF sorted_edges = <<>> THEN mst_edges
  ELSE LET e == Head(sorted_edges)
       IN IF e.v \notin node_connected_component(taken, e.u)
          THEN KruskalLoop(G_potential, Tail(sorted_edges), taken \cup {EdgeKey(e.u, e.v)},
                           Append(mst_edges,
                                  [u |-> e.u, v |-> e.v, data |-> G_potential[EdgeKey(e.u, e.v)]]))
          ELSE KruskalLoop(G_potential, Tail(sorted_edges), taken, mst_edges)

kruskal(G_potential, edges) ==
  KruskalLoop(G_potential, StableSort(edges, KruskalLess(edges)), {}, <<>>)

\* prim (lines 162-191).  The heap holds tuples (weight, u, v, data); heappop
\* returns the least tuple, and no two entries agree on (weight, u, v).
PrimStart(in) ==
  LET order == NodeOrder(in)
      hubs == {i \in DOMAIN order : FacilityType(in, order[i]) \in {"Medical", "Transit Hub"}}
  IN IF hubs # {} THEN order[CHOOSE i \in hubs : \A j \in hubs : i <= j]
     ELSE order[1]

HeapLess(a, b) ==
  \/ a[1] < b[1]
  \/ a[1] = b[1] /\ a[2] < b[2]
  \/ a[1] = b[1] /\ a[2] = b[2] /\ a[3] < b[3]

PrimPush(G_potential, heap, v, targets) ==
  heap \cup {<<G_potential[EdgeKey(v, w)].weight, v, w>> : w \in targets}

RECURSIVE PrimLoop(_, _, _, _, _)
PrimLoop(G_potential, nodes, visited, heap, mst_edges) ==
  IF heap = {} \/ Cardinality(visited) >= Cardinality(nodes) THEN mst_edges
  ELSE LET top == CHOOSE t \in heap : \A o \in heap \ {t} : HeapLess(t, o)
           u == top[2]
           v == top[3]
       IN IF v \in visited
          THEN PrimLoop(G_potential, nodes, visited, heap \ {top}, mst_edges)
          ELSE PrimLoop(G_potential, nodes, visited \cup {v},
                        PrimPush(G_potential, heap \ {top}, v,
                                 Neighbors(DOMAIN G_potential, v) \ (visited \cup {v})),
                        Append(mst_edges,
                               [u |-> u, v |-> v, data |-> G_potential[EdgeKey(u, v)]]))

prim(in, G_potential) ==
  LET start_node == PrimStart(in)
  IN PrimLoop(G_potential, Range(NodeOrder(in)), {start_node},
              PrimPush(G_potential, {}, start_node, Neighbors(DOMAIN G_potential, start_node)),
              <<>>)

\* Line 201: the key of the admission order,
\*   cost / (population(u) + population(v) + 1) if cost > 0 else inf,
\* as a fraction num/den (inf is 1/0); fractions compare by cross-multiplication.
AdmissionKey(in, e) ==
  IF e.data.cost > 0
  THEN [num |-> e.data.cost, den |-> PopulationOf(in, e.u) + PopulationOf(in, e.v) + 1]
  ELSE [num |-> 1, den |-> 0]

FracLess(a, b) == a.num * b.den < b.num * a.den

AdmissionLess(in, mst_edges) ==
  [a \in Range(mst_edges) |-> [b \in Range(mst_edges) |->
      FracLess(AdmissionKey(in, a), AdmissionKey(in, b))]]

SortedForAdmission(in, mst_edges) == StableSort(mst_edges, AdmissionLess(in, mst_edges))


MstInputs ==
  [neighborhoods : NeighborhoodTables, facilities : FacilityTables,
   existing_roads : ExistingTables, potential_roads : PotentialTables,
   algorithm_choice : {"kruskal", "prim"}, max_budget : Budgets]

\* The state of one invocation before its first statement; `run` counts the
\* invocations made with these inputs and first_result keeps the first result.
MstStart(in, run, first_result) ==
  [pc |-> "start", in |-> in, run |-> run, first_result |-> first_result,
   G |-> EmptyGraph, sorted_edges |-> <<>>, budget_used |-> 0,
   new_roads_added |-> <<>>, new_roads_cost |-> 0,
   connected_nodes |-> {}, missing_nodes |-> {}, result |-> None]

\* Lines 193-197: mst_edges by the chosen algorithm.
MstEdges(in, acc) ==
  IF in.algorithm_choice = "kruskal" THEN kruskal(acc.G_potential, acc.edges)
  ELSE prim(in, acc.G_potential)

\* Lines 33-201: the graph of existing roads, the backbone and its admission order.
MstBuild ==
  /\ mst.pc = "start"
  /\ LET in == mst.in
         G == ExistingGraph(in.existing_roads, EmptyGraph)
         acc == AddPotential(in, in.potential_roads.rows, [G_potential |-> G, edges |-> <<>>])
     IN mst' = [mst EXCEPT !.pc = "admit", !.G = G,
                  !.sorted_edges = IF ~in.potential_roads.given THEN <<>>
                                   ELSE SortedForAdmission(in, MstEdges(in, acc))]
  /\ UNCHANGED <<router, emerg, design, calls, preempt>>

\* Line 203: the admission test of one backbone edge.
Admissible(max_budget, budget_used, data) ==
  data.road_type = "potential" /\ (max_budget = NoBudget \/ budget_used + data.cost <= max_budget)

\* Lines 202-207: one iteration of the admission loop.
MstAdmit ==
  /\ mst.pc = "admit"
  /\ mst.sorted_edges # <<>>
  /\ LET e == Head(mst.sorted_edges)
     IN IF Admissible(mst.in.max_budget, mst.budget_used, e.data)
        THEN mst' = [mst EXCEPT !.sorted_edges = Tail(@),
                       !.G = AddEdge(@, e.u, e.v, e.data),
                       !.new_roads_added = Append(@, <<e.u, e.v, e.data.cost>>),
                       !.budget_used = @ + e.data.cost,
                       !.new_roads_cost = @ + e.data.cost]
        ELSE mst' = [mst EXCEPT !.sorted_edges = Tail(@)]
  /\ UNCHANGED <<router, emerg, design, calls, preempt>>

neighborhoods_ids(in) == {in.neighborhoods[i].ID : i \in DOMAIN in.neighborhoods}

\* Lines 210-212.  list(neighborhoods_ids)[0] is the first id in the set's
\* enumeration order, which for string ids changes with the process's hash seed.
MstRepairInit ==
  /\ mst.pc = "admit"
  /\ mst.sorted_edges = <<>>
  /\ \E first \in neighborhoods_ids(mst.in) :
       LET connected_nodes == node_connected_component(DOMAIN mst.G, first)
       IN mst' = [mst EXCEPT !.pc = "connect", !.connected_nodes = connected_nodes,
                    !.missing_nodes = neighborhoods_ids(mst.in) \ connected_nodes]
  /\ UNCHANGED <<router, emerg, design, calls, preempt>>

\* distance.euclidean(pos1, pos2) * 100: km between two nodes of the model.
Dist(in, a, b) == ISqrt((PosOf(in, a) - PosOf(in, b)) * (PosOf(in, a) - PosOf(in, b)))

EstCost(in, a, b) == Dist(in, a, b) * RatePerKm

\* A budget test that forgets what is already committed.
AffordableAlone(max_budget, budget_used, min_cost) ==
  max_budget = NoBudget \/ min_cost <= max_budget

\* Line 228: the budget test of a synthetic road.
Affordable(max_budget, budget_used, min_cost) ==
  max_budget = NoBudget \/ budget_used + min_cost <= max_budget

\* Lines 215-244: the loop body for one missing node.  missing_nodes holds the
\* nodes the loop has not visited yet; the loop visits them in the set's
\* enumeration order, and the inner loop keeps the first connected node of
\* least est_cost in connected_nodes' enumeration order.
MstConnect ==
  /\ mst.pc = "connect"
  /\ \E node \in mst.missing_nodes :
     \E connected_node \in mst.connected_nodes :
       /\ \A c \in mst.connected_nodes :
            EstCost(mst.in, node, connected_node) <= EstCost(mst.in, node, c)
       /\ LET min_cost == EstCost(mst.in, node, connected_node)
              travel_time == TravelTime(min_cost \div RatePerKm, 48)
          IN IF Affordable(mst.in.max_budget, mst.budget_used, min_cost)
             THEN mst' = [mst EXCEPT !.missing_nodes = @ \ {node},
                            !.G = AddEdge(@, node, connected_node,
                                          [weight |-> travel_time, time_cost |-> travel_time,
                                           distance |-> min_cost \div RatePerKm,
                                           road_type |-> "potential", cost |-> min_cost]),
                            !.new_roads_added = Append(@, <<node, connected_node, min_cost>>),
                            !.budget_used = @ + min_cost,
                            !.new_roads_cost = @ + min_cost,
                            !.connected_nodes = @ \cup {node}]
             ELSE mst' = [mst EXCEPT !.missing_nodes = @ \ {node}]
  /\ UNCHANGED <<router, emerg, design, calls, preempt>>

\* Lines 246-258: the metrics and the returned tuple.
MstResult(m) ==
  [G |-> m.G,
   total_time_cost |-> SumSet(DOMAIN m.G, [e \in DOMAIN m.G |-> m.G[e].time_cost]),
   new_roads_added |-> m.new_roads_added,
   total_distance |-> SumSet(DOMAIN m.G, [e \in DOMAIN m.G |-> m.G[e].distance]),
   cost_analysis |-> [new_roads_cost |-> m.new_roads_cost, total_cost |-> m.new_roads_cost]]

MstFinish ==
  /\ mst.pc = "connect"
  /\ mst.missing_nodes = {}
  /\ mst' = [mst EXCEPT !.pc = "done", !.result = MstResult(mst)]
  /\ UNCHANGED <<router, emerg, design, calls, preempt>>

\* A second invocation with identical inputs.
MstReinvoke ==
  /\ mst.pc = "done"
  /\ mst.run = 1
  /\ mst' = MstStart(mst.in, 2, mst.result)
  /\ UNCHANGED <<router, emerg, design, calls, preempt>>

InitMST ==
  /\ mst \in {MstStart(in, 1, None) : in \in MstInputs}
  /\ router = Idle /\ emerg = Idle /\ design = Idle /\ calls = Idle /\ preempt = Idle

NextMST ==
  \/ MstBuild
  \/ MstAdmit
  \/ MstRepairInit
  \/ MstConnect
  \/ MstFinish
  \/ MstReinvoke

SpecMST == InitMST /\ [][NextMST]_vars


(***************************************************************************)
(* Claims about create_mst_network                                         *)
(***************************************************************************)
MstCapped == mst.pc # "idle" /\ mst.in.max_budget # NoBudget

CostsOf(new_roads_added) == SumSeq([i \in DOMAIN new_roads_added |-> new_roads_added[i][3]])

\* C1: with a budget cap, after every admission step (backbone candidates and
\* synthetic connectivity roads) the committed cost is at most max_budget, and
\* so are the returned new_roads_cost and the costs listed in new_roads_added.
C1_BudgetRespected ==
  MstCapped =>
    /\ mst.budget_used <= mst.in.max_budget
    /\ mst.new_roads_cost <= mst.in.max_budget
    /\ CostsOf(mst.new_roads_added) <= mst.in.max_budget
    /\ mst.pc = "done" =>
         /\ mst.result.cost_analysis.new_roads_cost <= mst.in.max_budget
         /\ CostsOf(mst.result.new_roads_added) <= mst.in.max_budget

\* A capped run that admitted a backbone candidate, then a synthetic road, and
\* spent the whole budget.
C1_Witness ==
  /\ MstCapped
  /\ mst.pc = "done"
  /\ mst.in.max_budget > 0
  /\ mst.result.cost_analysis.new_roads_cost = mst.in.max_budget
  /\ \E i, j \in DOMAIN mst.new_roads_added :
       /\ i < j
       /\ mst.new_roads_added[i][3] > 0
       /\ mst.new_roads_added[j][3] > 0
       /\ \E r \in Range(mst.in.potential_roads.rows) :
            EdgeKey(r.FromID, r.ToID) = {mst.new_roads_added[i][1], mst.new_roads_added[i][2]}
       /\ \A r \in Range(mst.in.potential_roads.rows) :
            EdgeKey(r.FromID, r.ToID) # {mst.new_roads_added[j][1], mst.new_roads_added[j][2]}

\* The returned tuple (G, total_time_cost, new_roads_added, total_distance,
\* connectivity_score, cost_analysis) has no component naming unreachable nodes.
ReportedUnreachable(result) == {}

AreasConnected(G, ids) == \A a, b \in ids : b \in node_connected_component(DOMAIN G, a)

\* C3: in the returned graph every Area node is reachable from every other
\* Area node or is reported as unreachable due to budget; with no budget cap
\* all Area nodes are in one connected component.
C3_Coverage ==
  (mst.pc = "done") =>
    /\ \A a, b \in neighborhoods_ids(mst.in) :
         \/ b \in node_connected_component(DOMAIN mst.result.G, a)
         \/ a \in ReportedUnreachable(mst.result)
         \/ b \in ReportedUnreachable(mst.result)
    /\ mst.in.max_budget = NoBudget => AreasConnected(mst.result.G, neighborhoods_ids(mst.in))

\* The part of C3 the code keeps: without a cap the Area nodes end connected.
C3_UncappedConnected ==
  (mst.pc = "done" /\ mst.in.max_budget = NoBudget) =>
    AreasConnected(mst.result.G, neighborhoods_ids(mst.in))

\* C9: a second invocation with identical inputs returns the first one's result.
C9_Idempotent ==
  (mst.pc = "done" /\ mst.run = 2) => mst.result = mst.first_result


(***************************************************************************)
(* Routing on the road graph (traffic_optimization.py, emergency_response.py)*)
(*                                                                         *)
(* Times are in 1/TScale minutes; volumes and capacities are in units of   *)
(* 100 vehicles/hour.  TScale makes every product below exact for the      *)
(* conditions, capacities and volumes the model draws.                     *)
(***************************************************************************)
TScale == 400 * 3

\* Bounds of the router's inputs.
MaxAlternatives == 3

RouterNeighborhoods == <<1, 2, 3>>
RouterFacilities == <<11>>
\* An id that is in no table.
UnknownId == 9

RoadCatalogue ==
  <<[FromID |-> 1, ToID |-> 2, Distance |-> 2, Capacity |-> 20, Condition |-> 10],
    [FromID |-> 2, ToID |-> 11, Distance |-> 2, Capacity |-> 20, Condition |-> 10],
    [FromID |-> 1, ToID |-> 3, Distance |-> 1, Capacity |-> 20, Condition |-> 5],
    [FromID |-> 3, ToID |-> 11, Distance |-> 3, Capacity |-> 20, Condition |-> 10],
    [FromID |-> 3, ToID |-> 2, Distance |-> 1, Capacity |-> 20, Condition |-> 10],
    [FromID |-> 2, ToID |-> 1, Distance |-> 3, Capacity |-> 20, Condition |-> 10]>>

RoadTables ==
  {SelectSeq(RoadCatalogue, LAMBDA r : r \in S) : S \in SUBSET Range(RoadCatalogue)}

\* traffic_flow restricted to the chosen time column.
TrafficTables ==
  {<<>>,
   <<[FromID |-> 1, ToID |-> 2, Volume |-> 20], [FromID |-> 11, ToID |-> 2, Volume |-> 5]>>,
   <<[FromID |-> 1, ToID |-> 3, Volume |-> 20], [FromID |-> 3, ToID |-> 11, Volume |-> 10],
     [FromID |-> 3, ToID |-> 1, Volume |-> 5]>>}

\* traffic_dict: each row sets its key and its reverse key; later rows overwrite.
RECURSIVE TrafficDict(_, _)
TrafficDict(rows, d) ==
  IF rows = <<>> THEN d
  ELSE LET row == Head(rows)
           keys == {<<row.FromID, row.ToID>>, <<row.ToID, row.FromID>>}
       IN TrafficDict(Tail(rows),
            [k \in DOMAIN d \cup keys |-> IF k \in keys THEN row.Volume ELSE d[k]])

EmptyDict == [k \in {} |-> 0]

\* traffic_dict.get(road_key, traffic_dict.get(reverse_key, 0.5 * capacity))
TrafficVolume(traffic_dict, road) ==
  IF <<road.FromID, road.ToID>> \in DOMAIN traffic_dict
  THEN traffic_dict[<<road.FromID, road.ToID>>]
  ELSE IF <<road.ToID, road.FromID>> \in DOMAIN traffic_dict
       THEN traffic_dict[<<road.ToID, road.FromID>>]
       ELSE road.Capacity \div 2

\* base_time = distance / (60 * condition_factor) * 60, with
\* condition_factor = 0.5 + condition / 20 (so 60 * condition_factor = 30 + 3 * condition).
BaseTime(distance, condition) == (distance * 60 * TScale) \div (30 + 3 * condition)

\* base_time at the flat 60 km/h used when road quality is ignored.
FlatBaseTime(distance) == (distance * 60 * TScale) \div 60

\* time * traffic_adjustment, where congestion_ratio = min(volume / capacity, 1) and
\*   traffic_adjustment = 1 + congestion_ratio * 0.5           if congestion_ratio < 0.7
\*                      = 1 + factor * congestion_ratio ** 2   otherwise,
\* factor given as the fraction fnum / fden.
TrafficAdjusted(time, volume, capacity, fnum, fden) ==
  LET v == Min(volume, capacity)
  IN IF 10 * v < 7 * capacity
     THEN (time * (2 * capacity + v)) \div (2 * capacity)
     ELSE (time * (fden * capacity * capacity + fnum * v * v)) \div (fden * capacity * capacity)

\* Lines 52-75 of optimize_traffic_flow: the edge attributes of one road
\* (congestion_factor 1.5 = 3/2).
RouterEdge(in, traffic_dict, road) ==
  LET base_time == IF in.consider_road_quality THEN BaseTime(road.Distance, road.Condition)
                   ELSE FlatBaseTime(road.Distance)
      travel_time == IF in.consider_traffic
                     THEN TrafficAdjusted(base_time, TrafficVolume(traffic_dict, road),
                                          road.Capacity, 3, 2)
                     ELSE base_time
  IN [distance |-> road.Distance, base_time |-> base_time, time |-> travel_time]

RECURSIVE RouterGraph(_, _, _, _)
RouterGraph(in, traffic_dict, roads, G) ==
  IF roads = <<>> THEN G
  ELSE RouterGraph(in, traffic_dict, Tail(roads),
                   AddEdge(G, Head(roads).FromID, Head(roads).ToID,
                           RouterEdge(in, traffic_dict, Head(roads))))

\* The simple paths from s to t over the edges E, as node sequences.
RECURSIVE PathsFrom(_, _, _)
PathsFrom(E, path, t) ==
  LET last == path[Len(path)]
  IN IF last = t THEN {path}
     ELSE UNION {PathsFrom(E, Append(path, n), t) : n \in Neighbors(E, last) \ Range(path)}

SimplePaths(E, s, t) == PathsFrom(E, <<s>>, t)

\* A sum that stops one edge short of the path's end.
RECURSIVE PathSumShort(_, _, _)
PathSumShort(G, path, attr) ==
  IF Len(path) < 3 THEN 0
  ELSE G[EdgeKey(path[1], path[2])][attr] + PathSumShort(G, Tail(path), attr)

\* sum(G.get_edge_data(path[i], path[i+1])[attr] for i in range(len(path) - 1))
RECURSIVE PathSum(_, _, _)
PathSum(G, path, attr) ==
  IF Len(path) < 2 THEN 0
  ELSE G[EdgeKey(path[1], path[2])][attr] + PathSum(G, Tail(path), attr)

\* nx.shortest_path(G, s, t, weight=attr): some path of least total weight;
\* which one of several is the library's choice.
ShortestPaths(G, s, t, attr) ==
  LET all == SimplePaths(DOMAIN G, s, t)
  IN {p \in all : \A q \in all : PathSum(G, p, attr) <= PathSum(G, q, attr)}

\* The edge set of a path: {(min(u, v), max(u, v))}.
PathEdges(path) == {EdgeKey(path[i], path[i + 1]) : i \in 1..(Len(path) - 1)}

RemoveEdge(G, e) == [k \in DOMAIN G \ {e} |-> G[k]]


(***************************************************************************)
(* optimize_traffic_flow (traffic_optimization.py)                         *)
(***************************************************************************)
RouterIds == Range(RouterNeighborhoods) \cup Range(RouterFacilities)

\* The (origin, destination) requests of the model.
RouterRequests ==
  {<<1, 11>>, <<1, 3>>, <<2, 11>>, <<1, 1>>, <<UnknownId, 11>>, <<1, UnknownId>>}

RouterInputs ==
  {[existing_roads |-> roads, traffic_flow |-> traffic, from_id |-> req[1], to_id |-> req[2],
    consider_traffic |-> ct, consider_road_quality |-> cq, max_alternatives |-> k] :
      roads \in RoadTables, traffic \in TrafficTables, req \in RouterRequests,
      ct \in BOOLEAN, cq \in BOOLEAN, k \in 0..MaxAlternatives}

RouterStart(in) ==
  [pc |-> "start", in |-> in, G |-> EmptyGraph, optimal_path |-> <<>>,
   optimal_distance |-> 0, optimal_time |-> 0, optimal_edges |-> {},
   alternative_paths |-> <<>>, alternative_distances |-> <<>>, alternative_times |-> <<>>,
   excluded_edges |-> {}, i |-> 0, G_alt |-> EmptyGraph,
   result |-> [raised |-> "", error_message |-> ""]]

\* The nodes of G: every Location row and every endpoint of a road.
GraphNodes(G) == RouterIds \cup UNION DOMAIN G

\* What the function returns (lines 125-126 and 129); error_message None is "".
RouterReturned(path, distance, time, alts, alt_d, alt_t, error_message) ==
  [raised |-> "", optimal_path |-> path, optimal_distance |-> distance,
   optimal_time |-> time, alternative_paths |-> alts, alternative_distances |-> alt_d,
   alternative_times |-> alt_t, error_message |-> error_message]

\* An exception that leaves the function.
RouterRaised(exception) == [raised |-> exception, error_message |-> ""]

NoPathMessage == "No path exists between the selected origin and destination."

\* Lines 31-90: build the graph and search the optimal path.  nx.shortest_path
\* raises NodeNotFound for an endpoint that is no node of G (not caught by
\* `except nx.NetworkXNoPath`) and NetworkXNoPath when the endpoints are not
\* connected (caught at line 128).
RouterSearch ==
  /\ router.pc = "start"
  /\ LET in == router.in
         G == RouterGraph(in, TrafficDict(in.traffic_flow, EmptyDict), in.existing_roads,
                          EmptyGraph)
     IN IF in.from_id \notin GraphNodes(G) \/ in.to_id \notin GraphNodes(G)
        THEN router' = [router EXCEPT !.pc = "raised", !.G = G,
                          !.result = RouterRaised("NodeNotFound")]
        ELSE IF ShortestPaths(G, in.from_id, in.to_id, "time") = {}
        THEN router' = [router EXCEPT !.pc = "done", !.G = G,
                          !.result = RouterReturned(<<>>, 0, 0, <<>>, <<>>, <<>>, NoPathMessage)]
        ELSE \E optimal_path \in ShortestPaths(G, in.from_id, in.to_id, "time") :
               router' = [router EXCEPT !.pc = "alternatives", !.G = G,
                            !.optimal_path = optimal_path,
                            !.optimal_distance = PathSum(G, optimal_path, "distance"),
                            !.optimal_time = PathSum(G, optimal_path, "time"),
                            !.optimal_edges = PathEdges(optimal_path)]
  /\ UNCHANGED <<mst, emerg, design, calls, preempt>>

\* A diversity test that every candidate passes.
DiverseAlways(common, longest) == TRUE

\* Line 112-113: diversity >= diversity_threshold (0.3), with
\* diversity = 1 - common / longest, as 10 * (longest - common) >= 3 * longest.
Diverse(common, longest) == 10 * (longest - common) >= 3 * longest

\* Lines 95-102: the graph searched in iteration i (0-based): a fresh copy of G
\* without the i-th edge of the optimal path, unless that edge was excluded before.
AltGraph(G, optimal_path, excluded_edges, i) ==
  IF i < Len(optimal_path) - 1
       /\ EdgeKey(optimal_path[i + 1], optimal_path[i + 2]) \notin excluded_edges
  THEN RemoveEdge(G, EdgeKey(optimal_path[i + 1], optimal_path[i + 2]))
  ELSE G

\* Lines 93-123: one iteration of the alternatives loop.
RouterAlternative ==
  /\ router.pc = "alternatives"
  /\ router.i < router.in.max_alternatives
  /\ LET in == router.in
         i == router.i
         G_alt == AltGraph(router.G, router.optimal_path, router.excluded_edges, i)
         excluded == IF i < Len(router.optimal_path) - 1
                     THEN router.excluded_edges
                            \cup {EdgeKey(router.optimal_path[i + 1], router.optimal_path[i + 2])}
                     ELSE router.excluded_edges
         found == ShortestPaths(G_alt, in.from_id, in.to_id, "time")
     IN IF found = {}
        THEN router' = [router EXCEPT !.i = i + 1, !.excluded_edges = excluded,
                          !.G_alt = G_alt]
        ELSE \E alt_path \in found :
               LET alt_edges == PathEdges(alt_path)
                   common_edges == router.optimal_edges \cap alt_edges
                   longest == Max(Cardinality(router.optimal_edges), Cardinality(alt_edges))
               IN IF longest = 0
                  THEN router' = [router EXCEPT !.pc = "raised", !.excluded_edges = excluded,
                                    !.G_alt = G_alt,
                                    !.result = RouterRaised("ZeroDivisionError")]
                  ELSE IF /\ Diverse(Cardinality(common_edges), longest)
                               \/ router.alternative_paths = <<>>
                          /\ alt_path \notin Range(router.alternative_paths)
                  THEN router' = [router EXCEPT !.i = i + 1, !.excluded_edges = excluded,
                                    !.G_alt = G_alt,
                                    !.alternative_paths = Append(@, alt_path),
                                    !.alternative_distances =
                                       Append(@, PathSum(router.G, alt_path, "distance")),
                                    !.alternative_times =
                                       Append(@, PathSum(router.G, alt_path, "time"))]
                  ELSE router' = [router EXCEPT !.i = i + 1, !.excluded_edges = excluded,
                                    !.G_alt = G_alt]
  /\ UNCHANGED <<mst, emerg, design, calls, preempt>>

\* Lines 125-126.
RouterReturn ==
  /\ router.pc = "alternatives"
  /\ router.i >= router.in.max_alternatives
  /\ router' = [router EXCEPT !.pc = "done",
                  !.result = RouterReturned(router.optimal_path, router.optimal_distance,
                                            router.optimal_time, router.alternative_paths,
                                            router.alternative_distances,
                                            router.alternative_times, "")]
  /\ UNCHANGED <<mst, emerg, design, calls, preempt>>

InitRouter ==
  /\ router \in {RouterStart(in) : in \in RouterInputs}
  /\ mst = Idle /\ emerg = Idle /\ design = Idle /\ calls = Idle /\ preempt = Idle

NextRouter ==
  \/ RouterSearch
  \/ RouterAlternative
  \/ RouterReturn

SpecRouter == InitRouter /\ [][NextRouter]_vars


(***************************************************************************)
(* Claims about optimize_traffic_flow                                      *)
(***************************************************************************)
RouterEnded == router.pc \in {"done", "raised"}

RouterKnown(G, n) == n \in GraphNodes(G)

RouterConnected(G, a, b) == b \in node_connected_component(DOMAIN G, a)

\* path runs from a to b along edges of G
IsPathOf(G, path, a, b) ==
  /\ path # <<>>
  /\ path[1] = a
  /\ path[Len(path)] = b
  /\ PathEdges(path) \subseteq DOMAIN G

\* the sum of one attribute over the consecutive edges of a path
EdgeTotal(G, path, attr) ==
  SumSeq([i \in 1..(Len(path) - 1) |-> G[EdgeKey(path[i], path[i + 1])][attr]])

\* C6: for a connected pair, optimal_distance and optimal_time are the sums of
\* the distances and time weights of the consecutive edges of the returned
\* optimal path, and each alternative's reported distance and time are the
\* sums over that alternative's edges.
C6_ReportedSums ==
  (router.pc = "done" /\ router.result.error_message = "") =>
    LET r == router.result
        in == router.in
    IN /\ IsPathOf(router.G, r.optimal_path, in.from_id, in.to_id)
       /\ r.optimal_distance = EdgeTotal(router.G, r.optimal_path, "distance")
       /\ r.optimal_time = EdgeTotal(router.G, r.optimal_path, "time")
       /\ Len(r.alternative_distances) = Len(r.alternative_paths)
       /\ Len(r.alternative_times) = Len(r.alternative_paths)
       /\ \A k \in DOMAIN r.alternative_paths :
            /\ IsPathOf(router.G, r.alternative_paths[k], in.from_id, in.to_id)
            /\ r.alternative_distances[k] = EdgeTotal(router.G, r.alternative_paths[k], "distance")
            /\ r.alternative_times[k] = EdgeTotal(router.G, r.alternative_paths[k], "time")

\* A returned optimal path of two edges with an alternative of three edges.
C6_Witness ==
  /\ router.pc = "done"
  /\ router.result.error_message = ""
  /\ Len(router.result.optimal_path) = 3
  /\ \E k \in DOMAIN router.result.alternative_paths :
       /\ Len(router.result.alternative_paths[k]) = 4
       /\ router.result.alternative_times[k] > router.result.optimal_time

\* C7: known endpoints in different components: no exception, empty path, zero
\* distance and time, empty alternatives and an error message; when a path
\* exists: no error message and a non-empty path.
C7_NoPathReported ==
  (RouterEnded /\ RouterKnown(router.G, router.in.from_id)
               /\ RouterKnown(router.G, router.in.to_id)) =>
    LET r == router.result
    IN IF RouterConnected(router.G, router.in.from_id, router.in.to_id)
       THEN /\ r.raised = ""
            /\ r.error_message = ""
            /\ r.optimal_path # <<>>
       ELSE /\ r.raised = ""
            /\ r.error_message # ""
            /\ r.optimal_path = <<>>
            /\ r.optimal_distance = 0
            /\ r.optimal_time = 0
            /\ r.alternative_paths = <<>>
            /\ r.alternative_distances = <<>>
            /\ r.alternative_times = <<>>

\* What the code keeps of C7: the same, for an origin other than the destination.
C7_DistinctEndpoints ==
  (router.pc # "idle" /\ router.in.from_id # router.in.to_id) => C7_NoPathReported

\* C8: an origin or destination in no table yields an explicit error value
\* with empty/zero result fields, never an uncaught exception.
C8_UnknownIdReported ==
  (RouterEnded /\ (~RouterKnown(router.G, router.in.from_id)
                     \/ ~RouterKnown(router.G, router.in.to_id))) =>
    /\ router.result.raised = ""
    /\ router.result.error_message # ""
    /\ router.result.optimal_path = <<>>
    /\ router.result.optimal_distance = 0
    /\ router.result.optimal_time = 0


(***************************************************************************)
(* plan_emergency_routes (emergency_response.py)                            *)
(*                                                                         *)
(* Node positions are X coordinates in 0.01 degree on one latitude;        *)
(* signal times are in seconds.                                            *)
(***************************************************************************)
\* The largest X coordinate the model draws.
MaxPos == 6

PriorityLevels == 1..5

congestion_threshold == 10

\* (origin, destination): a facility and an incident location.
EmergencyRequests == {<<11, 3>>, <<11, 1>>, <<UnknownId, 3>>}

PositionTables ==
  {[n \in RouterIds |-> IF n = 2 THEN x2 ELSE IF n = 11 THEN 3 ELSE 0] : x2 \in {1, MaxPos}}

\* intersections (the ids that are keys) and signals (id -> cycle_time); both
\* empty when the caller passes None.
SignalTables ==
  {[intersections |-> {}, signals |-> EmptyDict],
   [intersections |-> {1, 2, 3}, signals |-> (2 :> 60 @@ 3 :> 90)]}

EmergencyInputs ==
  {[existing_roads |-> roads, traffic_flow |-> traffic, from_id |-> req[1], to_id |-> req[2],
    priority_level |-> p, route_clearing |-> rc, node_positions |-> pos,
    intersections |-> sig.intersections, signals |-> sig.signals] :
      roads \in RoadTables, traffic \in TrafficTables, req \in EmergencyRequests,
      p \in PriorityLevels, rc \in BOOLEAN, pos \in PositionTables, sig \in SignalTables}

\* priority_factor = max(0.2, 1.0 - 0.3 * priority_level), in tenths.
PriorityFactor10(priority_level) == Max(2, 10 - 3 * priority_level)

\* reduced_traffic_factor = max(0.1, 0.7 - 0.2 * priority_level), in tenths.
ReducedTrafficFactor10(priority_level) == Max(1, 7 - 2 * priority_level)

\* Lines 96-126: the edge attributes of one road.
EmergencyEdge(in, traffic_dict, road) ==
  LET base_time == BaseTime(road.Distance, road.Condition)
      regular_time == TrafficAdjusted(base_time, TrafficVolume(traffic_dict, road),
                                      road.Capacity, 2, 1)
  IN [distance |-> road.Distance, road_condition |-> road.Condition,
      regular_time |-> regular_time,
      emergency_time |-> (regular_time * PriorityFactor10(in.priority_level)) \div 10]

RECURSIVE EmergencyGraph(_, _, _, _)
EmergencyGraph(in, traffic_dict, roads, G) ==
  IF roads = <<>> THEN G
  ELSE EmergencyGraph(in, traffic_dict, Tail(roads),
                      AddEdge(G, Head(roads).FromID, Head(roads).ToID,
                              EmergencyEdge(in, traffic_dict, Head(roads))))

\* Lines 163-177: every edge's emergency_time doubled, then the edges of the
\* path found without clearing set to base_time * reduced_traffic_factor * 0.5.
ClearedGraph(G, emergency_path_no_clearing, priority_level) ==
  [e \in DOMAIN G |->
     IF e \in PathEdges(emergency_path_no_clearing)
     THEN [G[e] EXCEPT !.emergency_time =
             (BaseTime(G[e].distance, G[e].road_condition)
                * ReducedTrafficFactor10(priority_level)) \div 20]
     ELSE [G[e] EXCEPT !.emergency_time = 2 * @]]

\* heuristic(node) = straight_distance * 111 / 80 * 60 minutes.
heuristic(node_positions, node, to_id) ==
  IF node \in DOMAIN node_positions /\ to_id \in DOMAIN node_positions
  THEN LET dx == node_positions[node] - node_positions[to_id]
       IN (ISqrt(dx * dx) * 111 * 60 * TScale) \div (80 * 100)
  ELSE 0

\* heappop: the least (f, node) tuple.
HeapMin(frontier) ==
  CHOOSE x \in frontier :
    \A y \in frontier : x[1] < y[1] \/ (x[1] = y[1] /\ x[2] <= y[2])

\* weight = edge_data['emergency_time']; if weight <= 0: weight = 0.1
AStarWeight(G, u, v) ==
  IF G[EdgeKey(u, v)].emergency_time <= 0 THEN TScale \div 10
  ELSE G[EdgeKey(u, v)].emergency_time

\* Lines 191-195: follow came_from back from the goal.
RECURSIVE ReconstructPath(_, _)
ReconstructPath(came_from, current) ==
  IF current \in DOMAIN came_from
  THEN Append(ReconstructPath(came_from, came_from[current]), current)
  ELSE <<current>>

\* Lines 23-27 of preempt_intersection_signals: the first traffic row from
\* prev to node, 1000 veh/h when there is none.
IncomingVolume(traffic_flow, prev, node) ==
  LET rows == SelectSeq(traffic_flow, LAMBDA r : r.FromID = prev /\ r.ToID = node)
  IN IF rows = <<>> THEN congestion_threshold ELSE rows[1].Volume

\* preempt_intersection_signals: the plan entry of each interior node that is
\* an intersection with a signal.
preemption_plan(intersections, signals, emergency_path, traffic_flow) ==
  LET interior == {i \in 2..(Len(emergency_path) - 1) :
                     /\ emergency_path[i] \in intersections
                     /\ emergency_path[i] \in DOMAIN signals}
      entry(i) ==
        LET node_id == emergency_path[i]
            volume == IncomingVolume(traffic_flow, emergency_path[i - 1], node_id)
        IN IF volume >= congestion_threshold
           THEN [primary_direction |-> <<emergency_path[i - 1], node_id>>,
                 time_saved |-> signals[node_id] \div 2,
                 preemption_effective |-> TRUE, reason |-> ""]
           ELSE [primary_direction |-> <<emergency_path[i - 1], node_id>>,
                 time_saved |-> 0,
                 preemption_effective |-> FALSE, reason |-> "Low traffic volume"]
  IN [n \in {emergency_path[i] : i \in interior} |->
        entry(CHOOSE i \in interior : emergency_path[i] = n)]

total_time_saved(plan) == SumSet(DOMAIN plan, [n \in DOMAIN plan |-> plan[n].time_saved])

\* The returned tuple (lines 243-244).
EmergencyResult(path, regular_path, time, regular_time, saved, distance, plan, saved_signals) ==
  [emergency_path |-> path, regular_path |-> regular_path,
   emergency_time |-> time, regular_time |-> regular_time,
   time_saved_route |-> saved, emergency_distance |-> distance,
   preemption_plan |-> plan, time_saved_signals |-> saved_signals]

\* return [], [], 0, 0, 0, 0, {}, 0
EmergencyNothing == EmergencyResult(<<>>, <<>>, 0, 0, 0, 0, EmptyDict, 0)

NoPrevious == [priority_level |-> 0, time_saved_route |-> 0]

EmergencyStart(in, run, prev) ==
  [pc |-> "start", in |-> in, run |-> run, prev |-> prev,
   G |-> EmptyGraph, G_emergency |-> EmptyGraph,
   regular_path |-> <<>>, regular_distance |-> 0, regular_time |-> 0,
   frontier |-> {}, came_from |-> EmptyDict, g_score |-> EmptyDict, visited |-> {},
   result |-> EmergencyNothing]


\* Lines 73-158: build the graph, test the endpoints, find the regular path and
\* prepare the graph searched by a_star_search.
EmergencyPlan ==
  /\ emerg.pc = "start"
  /\ LET in == emerg.in
         G == EmergencyGraph(in, TrafficDict(in.traffic_flow, EmptyDict), in.existing_roads,
                             EmptyGraph)
     IN IF \/ in.from_id \notin GraphNodes(G)
           \/ in.to_id \notin GraphNodes(G)
           \/ in.to_id \notin node_connected_component(DOMAIN G, in.from_id)
        THEN emerg' = [emerg EXCEPT !.pc = "done", !.G = G, !.result = EmergencyNothing]
        ELSE \E regular_path \in ShortestPaths(G, in.from_id, in.to_id, "regular_time") :
             \E emergency_path_no_clearing \in
                    ShortestPaths(G, in.from_id, in.to_id, "emergency_time") :
               emerg' = [emerg EXCEPT
                 !.pc = "a_star", !.G = G,
                 !.G_emergency =
                    IF in.route_clearing
                    THEN ClearedGraph(G, emergency_path_no_clearing, in.priority_level)
                    ELSE G,
                 !.regular_path = regular_path,
                 !.regular_distance = PathSum(G, regular_path, "distance"),
                 !.regular_time = PathSum(G, regular_path, "regular_time"),
                 !.frontier = {<<0, in.from_id>>},
                 !.came_from = EmptyDict,
                 !.g_score = (in.from_id :> 0),
                 !.visited = {}]
  /\ UNCHANGED <<mst, router, design, calls, preempt>>

\* tentative_g_score of neighbor n of current (line 205).
Tentative(G, g_score, current, n) == g_score[current] + AStarWeight(G, current, n)

\* The search with a g_score that has no entry for a node not reached yet:
\* no neighbour is ever better.
ImprovedKnown(G, g_score, visited, current) ==
  {n \in Neighbors(DOMAIN G, current) \ visited :
     n \in DOMAIN g_score /\ Tentative(G, g_score, current, n) < g_score[n]}

\* Lines 199-207: the neighbours of current that are not visited and whose
\* tentative score is below their g_score, which is inf until they are reached.
Improved(G, g_score, visited, current) ==
  {n \in Neighbors(DOMAIN G, current) \ visited :
     n \notin DOMAIN g_score \/ Tentative(G, g_score, current, n) < g_score[n]}

\* Lines 188-244: one iteration of a_star_search's loop; when the loop ends
\* (goal popped, or frontier exhausted) the rest of the function up to its return.
EmergencyAStar ==
  /\ emerg.pc = "a_star"
  /\ LET in == emerg.in
         G == emerg.G_emergency
     IN IF emerg.frontier = {}
        THEN emerg' = [emerg EXCEPT !.pc = "done",
                         !.result = EmergencyResult(emerg.regular_path, emerg.regular_path,
                                       emerg.regular_time, emerg.regular_time, 0,
                                       emerg.regular_distance, EmptyDict, 0)]
        ELSE LET top == HeapMin(emerg.frontier)
                 current == top[2]
             IN IF current = in.to_id
                THEN LET emergency_path == ReconstructPath(emerg.came_from, current)
                         emergency_time == PathSum(G, emergency_path, "emergency_time")
                         plan == IF in.intersections # {} /\ DOMAIN in.signals # {}
                                 THEN preemption_plan(in.intersections, in.signals,
                                                      emergency_path, in.traffic_flow)
                                 ELSE EmptyDict
                     IN emerg' = [emerg EXCEPT !.pc = "done",
                                    !.frontier = @ \ {top},
                                    !.result = EmergencyResult(emergency_path, emerg.regular_path,
                                       emergency_time, emerg.regular_time,
                                       emerg.regular_time - emergency_time,
                                       PathSum(G, emergency_path, "distance"),
                                       plan, total_time_saved(plan))]
                ELSE LET visited == emerg.visited \cup {current}
                         tentative(n) == Tentative(G, emerg.g_score, current, n)
                         better == Improved(G, emerg.g_score, visited, current)
                     IN emerg' = [emerg EXCEPT
                          !.visited = visited,
                          !.came_from = [n \in DOMAIN @ \cup better |->
                                           IF n \in better THEN current ELSE @[n]],
                          !.g_score = [n \in DOMAIN @ \cup better |->
                                         IF n \in better THEN tentative(n) ELSE @[n]],
                          !.frontier = (@ \ {top}) \cup
                             {<<tentative(n) + heuristic(in.node_positions, n, in.to_id), n>> :
                                n \in better}]
  /\ UNCHANGED <<mst, router, design, calls, preempt>>

\* The same request again at the next less urgent priority level.
EmergencyReinvoke ==
  /\ emerg.pc = "done"
  /\ emerg.run = 1
  /\ emerg.in.priority_level + 1 \in PriorityLevels
  /\ emerg' = EmergencyStart([emerg.in EXCEPT !.priority_level = @ + 1], 2,
                [priority_level |-> emerg.in.priority_level,
                 time_saved_route |-> emerg.result.time_saved_route])
  /\ UNCHANGED <<mst, router, design, calls, preempt>>

InitEmergency ==
  /\ emerg \in {EmergencyStart(in, 1, NoPrevious) : in \in EmergencyInputs}
  /\ mst = Idle /\ router = Idle /\ design = Idle /\ calls = Idle /\ preempt = Idle

NextEmergency ==
  \/ EmergencyPlan
  \/ EmergencyAStar
  \/ EmergencyReinvoke

SpecEmergency == InitEmergency /\ [][NextEmergency]_vars

(***************************************************************************)
(* Claims about plan_emergency_routes                                      *)
(***************************************************************************)
EmergencyConnected ==
  /\ emerg.in.from_id \in GraphNodes(emerg.G)
  /\ emerg.in.to_id \in node_connected_component(DOMAIN emerg.G, emerg.in.from_id)

\* C4: on the same network, origin, destination, time bucket and
\* route_clearing flag, a more urgent priority level (a lower number) never
\* yields a smaller time_saved_route than a less urgent one.
C4_Monotone ==
  (emerg.pc = "done" /\ emerg.run = 2) =>
    emerg.prev.time_saved_route >= emerg.result.time_saved_route

\* C5: with route clearing, connected endpoints and a priority level in 1..3,
\* the returned emergency_time is strictly less than regular_time.
C5_EmergencyFaster ==
  (/\ emerg.pc = "done"
   /\ emerg.in.route_clearing
   /\ emerg.in.priority_level \in 1..3
   /\ EmergencyConnected) =>
    /\ emerg.result.emergency_time < emerg.result.regular_time
    /\ emerg.result.time_saved_route > 0


\* What the code keeps of C5: the same, when node 2 lies as far from the
\* destination as its road is long.
C5_NearbyCoordinates ==
  (emerg.pc # "idle" /\ emerg.in.node_positions[2] = 1) => C5_EmergencyFaster


(***************************************************************************)
(* design_integrated_network (public_transit.py)                            *)
(*                                                                         *)
(* Distances are in km, costs and budgets in Million EGP.  The labels      *)
(* KMeans assigns to the neighbourhoods are an input of the model.         *)
(***************************************************************************)
\* The largest max_new_routes the model draws.
MaxRoutes == 2

DesignNeighborhoods ==
  <<[ID |-> 1, Population |-> 3000], [ID |-> 2, Population |-> 2000],
    [ID |-> 3, Population |-> 4000], [ID |-> 4, Population |-> 800]>>

DesignFacilities == <<11, 12>>

\* G.nodes in insertion order.
DesignNodes == [i \in 1..Len(DesignNeighborhoods) |-> DesignNeighborhoods[i].ID] \o DesignFacilities

\* kmeans.labels_, one label per neighbourhood row.
ClusterLabellings == {<<0, 0, 1, 1>>, <<0, 0, 1, 2>>, <<0, 1, 1, 0>>}

\* metro_lines and bus_routes: the stop ids of each row.
LineTables ==
  {[metro_lines |-> <<>>, bus_routes |-> <<>>],
   [metro_lines |-> <<<<1, 11>>>>, bus_routes |-> <<>>],
   [metro_lines |-> <<<<1, 11>>>>, bus_routes |-> <<<<3, 12>>, <<12, 11>>>>],
   [metro_lines |-> <<<<1, 2, 3, 4, 11>>>>, bus_routes |-> <<<<4, 12>>>>],
   [metro_lines |-> <<<<1, 2, 3, 11>>>>, bus_routes |-> <<<<12, 13>>>>]}

DemandTables ==
  {<<>>,
   <<[FromID |-> 1, ToID |-> 11, Passengers |-> 500], [FromID |-> 3, ToID |-> 12, Passengers |-> 300]>>,
   <<[FromID |-> 12, ToID |-> 2, Passengers |-> 900], [FromID |-> 11, ToID |-> 12, Passengers |-> 100],
     [FromID |-> 3, ToID |-> 1, Passengers |-> 100]>>,
   <<[FromID |-> 1, ToID |-> 11, Passengers |-> 600], [FromID |-> 2, ToID |-> 12, Passengers |-> 500],
     [FromID |-> 3, ToID |-> 13, Passengers |-> 100], [FromID |-> 3, ToID |-> 1, Passengers |-> 50]>>}

DesignRoadCatalogue ==
  <<[FromID |-> 1, ToID |-> 2, Distance |-> 5], [FromID |-> 2, ToID |-> 11, Distance |-> 10],
    [FromID |-> 3, ToID |-> 4, Distance |-> 4], [FromID |-> 3, ToID |-> 12, Distance |-> 6],
    [FromID |-> 1, ToID |-> 3, Distance |-> 3]>>

\* A road table whose second road leads to a node found in no other table.
HubRoads ==
  <<[FromID |-> 1, ToID |-> 3, Distance |-> 3], [FromID |-> 3, ToID |-> 13, Distance |-> 1]>>

DesignRoadTables ==
  {SelectSeq(DesignRoadCatalogue, LAMBDA r : r \in S) : S \in SUBSET Range(DesignRoadCatalogue)}
    \cup {HubRoads}

DesignBudgets == {50, 100, 1000}

\* fleet_availability: the buses available, -1 when the argument is None.
FleetOptions == {-1, 5}

DesignInputs ==
  {[clusters |-> labels, metro_lines |-> lines.metro_lines, bus_routes |-> lines.bus_routes,
    transit_demand |-> demand, existing_roads |-> roads, max_new_routes |-> n,
    max_budget |-> budget, fleet_bus |-> fleet] :
      labels \in ClusterLabellings, lines \in LineTables, demand \in DemandTables,
      roads \in DesignRoadTables, n \in 1..MaxRoutes, budget \in DesignBudgets,
      fleet \in FleetOptions}

\* Lines 524-530.
RECURSIVE DesignGraph(_, _)
DesignGraph(roads, G) ==
  IF roads = <<>> THEN G
  ELSE DesignGraph(Tail(roads),
         AddEdge(G, Head(roads).FromID, Head(roads).ToID, [distance |-> Head(roads).Distance]))

\* Lines 533-539.
existing_stops(in) ==
  UNION {Range(in.metro_lines[i]) : i \in DOMAIN in.metro_lines}
    \cup UNION {Range(in.bus_routes[i]) : i \in DOMAIN in.bus_routes}

NeighborhoodIds == {DesignNeighborhoods[i].ID : i \in DOMAIN DesignNeighborhoods}

NeighborhoodPopulation(id) ==
  LET i == CHOOSE j \in DOMAIN DesignNeighborhoods : DesignNeighborhoods[j].ID = id
  IN DesignNeighborhoods[i].Population

\* cluster_nodes[cluster], in row order.
cluster_nodes(in, cluster) ==
  LET rows == SelectSeq([i \in DOMAIN DesignNeighborhoods |-> i],
                        LAMBDA i : in.clusters[i] = cluster)
  IN [k \in DOMAIN rows |-> DesignNeighborhoods[rows[k]].ID]

cluster_population(in, cluster) ==
  SumSeq([k \in DOMAIN cluster_nodes(in, cluster) |->
            NeighborhoodPopulation(cluster_nodes(in, cluster)[k])])

cluster_coverage(in, cluster) ==
  Cardinality(Range(cluster_nodes(in, cluster)) \cap existing_stops(in))

\* Lines 559-567: coverage_ratio < 0.95 and total_population > 1000, over
\* set(clusters) in ascending label order.
Underserved(in, cluster) ==
  /\ 100 * cluster_coverage(in, cluster) < 95 * Len(cluster_nodes(in, cluster))
  /\ cluster_population(in, cluster) > 1000

underserved_clusters(in) ==
  LET labels == Range(in.clusters)
      ordered == SelectSeq([i \in 1..(1 + Len(in.clusters)) |-> i - 1],
                           LAMBDA c : c \in labels /\ Underserved(in, c))
  IN ordered

\* Line 570-573: the sort key (population, 1 / coverage_ratio), descending;
\* a > b on keys, the second component compared as len/coverage fractions.
ClusterKeyGreater(in, a, b) ==
  \/ cluster_population(in, a) > cluster_population(in, b)
  \/ /\ cluster_population(in, a) = cluster_population(in, b)
     /\ Len(cluster_nodes(in, a)) * cluster_coverage(in, b)
          > Len(cluster_nodes(in, b)) * cluster_coverage(in, a)

SortedClusters(in) ==
  LET cs == underserved_clusters(in)
  IN StableSort(cs, [a \in Range(cs) |-> [b \in Range(cs) |-> ClusterKeyGreater(in, a, b)]])

\* Lines 576-579: stop_demand as (stop, demand) pairs in the dictionary's
\* insertion order.
RECURSIVE stop_demand(_, _)
stop_demand(rows, acc) ==
  IF rows = <<>> THEN acc
  ELSE LET add(a, stop, d) ==
             IF \E i \in DOMAIN a : a[i][1] = stop
             THEN [i \in DOMAIN a |-> IF a[i][1] = stop THEN <<stop, a[i][2] + d>> ELSE a[i]]
             ELSE Append(a, <<stop, d>>)
           row == Head(rows)
       IN stop_demand(Tail(rows),
                      add(add(acc, row.FromID, row.Passengers), row.ToID, row.Passengers))

\* Lines 580-582: the ten highest-demand existing stops.
transit_hub_ids(in) ==
  LET known == SelectSeq(stop_demand(in.transit_demand, <<>>),
                         LAMBDA x : x[1] \in existing_stops(in))
      sorted == StableSort(known, [a \in Range(known) |-> [b \in Range(known) |-> a[2] > b[2]]])
      top == SubSeq(sorted, 1, Min(10, Len(sorted)))
  IN [i \in DOMAIN top |-> top[i][1]]


DesignGraphNodes(G) == Range(DesignNodes) \cup UNION DOMAIN G

\* G.nodes in insertion order: the rows of neighborhoods and facilities, then
\* the road ends that add_edge created.
RECURSIVE GraphNodeOrder(_, _)
GraphNodeOrder(roads, nodes) ==
  IF roads = <<>> THEN nodes
  ELSE LET a == Head(roads).FromID
           b == Head(roads).ToID
           with_a == IF a \in Range(nodes) THEN nodes ELSE Append(nodes, a)
           with_b == IF b \in Range(with_a) THEN with_a ELSE Append(with_a, b)
       IN GraphNodeOrder(Tail(roads), with_b)

\* nx.shortest_path_length(G, a, b, weight='distance') for connected a, b.
shortest_path_length(G, a, b) ==
  PathSum(G, CHOOSE p \in ShortestPaths(G, a, b, "distance") : TRUE, "distance")

\* Lines 613-621: the hubs used when no demand-ranked hub exists: the five
\* existing stops with the least total distance to the nodes they reach, or
\* else the first five nodes of degree above two.
FallbackHubs(in, G) ==
  LET nodes == GraphNodeOrder(in.existing_roads, DesignNodes)
      stops == SelectSeq(nodes, LAMBDA n : n \in existing_stops(in))
      total == [n \in Range(stops) |->
                  SumSet(node_connected_component(DOMAIN G, n) \ {n},
                         [t \in node_connected_component(DOMAIN G, n) \ {n} |->
                            shortest_path_length(G, n, t)])]
      central == StableSort(stops, [a \in Range(stops) |-> [b \in Range(stops) |->
                                      total[a] < total[b]]])
      busy == SelectSeq(nodes, LAMBDA n : Cardinality(Neighbors(DOMAIN G, n)) > 2)
  IN IF central # <<>> THEN SubSeq(central, 1, Min(5, Len(central)))
     ELSE SubSeq(busy, 1, Min(5, Len(busy)))

\* Line 603: the first node of the cluster with the largest population.
cluster_center(in, cluster) ==
  LET nodes == cluster_nodes(in, cluster)
      i == CHOOSE j \in DOMAIN nodes :
             /\ \A k \in DOMAIN nodes :
                  NeighborhoodPopulation(nodes[k]) <= NeighborhoodPopulation(nodes[j])
             /\ \A k \in 1..(j - 1) :
                  NeighborhoodPopulation(nodes[k]) < NeighborhoodPopulation(nodes[j])
  IN nodes[i]

\* Line 636: the path shares more than half of its nodes with an accepted route.
TooSimilar(path, new_routes) ==
  \E i \in DOMAIN new_routes :
    2 * Cardinality(Range(path) \cap Range(new_routes[i])) > Len(path)

NoHub == [closest_hub |-> 0, min_distance |-> 0, best_path |-> <<>>]

\* Lines 630-642 for one hub and the path found to it.
ConsiderHub(best, hub, path, distance, new_routes) ==
  IF Len(path) < 2 \/ TooSimilar(path, new_routes) THEN best
  ELSE IF best.best_path = <<>> \/ distance < best.min_distance
       THEN [closest_hub |-> hub, min_distance |-> distance, best_path |-> path]
       ELSE best

\* Lines 624-644: the outcomes of the loop over the first five hubs; each
\* shortest path is some path of least distance.
RECURSIVE HubSearch(_, _, _, _, _)
HubSearch(G, center, hubs, new_routes, best) ==
  IF hubs = <<>> THEN {best}
  ELSE LET hub == Head(hubs)
       IN IF hub = center \/ hub \notin node_connected_component(DOMAIN G, center)
          THEN HubSearch(G, center, Tail(hubs), new_routes, best)
          ELSE UNION {HubSearch(G, center, Tail(hubs), new_routes,
                                ConsiderHub(best, hub, path, PathSum(G, path, "distance"),
                                            new_routes)) :
                        path \in ShortestPaths(G, center, hub, "distance")}

\* Line 655: the first route, when it takes more than 80% of the budget.
FirstRouteRule(total_cost, cost, max_budget, new_routes) ==
  10 * (total_cost + cost) > 8 * max_budget /\ Len(new_routes) = 0

\* Line 661.
WithinBudget(total_cost, cost, max_budget) == total_cost + cost <= max_budget

DesignStart(in) ==
  [pc |-> "start", in |-> in, G |-> EmptyGraph, underserved |-> <<>>, hubs |-> <<>>,
   idx |-> 1, new_routes |-> <<>>, total_cost |-> 0, recommendations |-> <<>>,
   result |-> [raised |-> ""]]

\* Lines 523-590: graph, stops, clusters, hubs.  The sort key of line 572
\* divides by the coverage ratio of every underserved cluster.
DesignPrepare ==
  /\ design.pc = "start"
  /\ LET in == design.in
     IN IF \E c \in Range(underserved_clusters(in)) : cluster_coverage(in, c) = 0
        THEN design' = [design EXCEPT !.pc = "raised",
                          !.G = DesignGraph(in.existing_roads, EmptyGraph),
                          !.result = [raised |-> "ZeroDivisionError"]]
        ELSE design' = [design EXCEPT !.pc = "clusters",
                          !.G = DesignGraph(in.existing_roads, EmptyGraph),
                          !.underserved = SubSeq(SortedClusters(in), 1,
                             Min(2 * in.max_new_routes, Len(SortedClusters(in)))),
                          !.hubs = transit_hub_ids(in)]
  /\ UNCHANGED <<mst, router, emerg, calls, preempt>>

\* Lines 592-667: one iteration of the loop over the considered clusters.
DesignCluster ==
  /\ design.pc = "clusters"
  /\ design.idx <= Len(design.underserved)
  /\ Len(design.new_routes) < design.in.max_new_routes
  /\ LET in == design.in
         G == design.G
         cluster == design.underserved[design.idx]
         center == cluster_center(in, cluster)
         hubs == IF design.hubs = <<>> THEN FallbackHubs(in, G) ELSE design.hubs
         tried == SubSeq(hubs, 1, Min(5, Len(hubs)))
     IN IF \E i \in DOMAIN tried : tried[i] # center /\ tried[i] \notin DesignGraphNodes(G)
        THEN design' = [design EXCEPT !.pc = "raised", !.hubs = hubs,
                          !.result = [raised |-> "NodeNotFound"]]
        ELSE \E best \in HubSearch(G, center, tried, design.new_routes, NoHub) :
               LET min_distance == IF 10 * best.min_distance < 1 THEN 1 ELSE best.min_distance
                   cost == min_distance * 10
                   note(kind) == [kind |-> kind, cluster |-> cluster,
                                  hub |-> best.closest_hub, path |-> best.best_path,
                                  cost |-> cost]
               IN IF best.best_path = <<>>
                  THEN design' = [design EXCEPT !.idx = @ + 1, !.hubs = hubs]
                  ELSE IF \/ FirstRouteRule(design.total_cost, cost, in.max_budget,
                                            design.new_routes)
                          \/ WithinBudget(design.total_cost, cost, in.max_budget)
                  THEN design' = [design EXCEPT !.idx = @ + 1, !.hubs = hubs,
                                    !.total_cost = @ + cost,
                                    !.new_routes = Append(@, best.best_path),
                                    !.recommendations = Append(@, note("proposed"))]
                  ELSE design' = [design EXCEPT !.idx = @ + 1, !.hubs = hubs,
                                    !.recommendations = Append(@, note("could_not_propose"))]
  /\ UNCHANGED <<mst, router, emerg, calls, preempt>>

\* Lines 669-708: fleet check, coverage statistics and the returned tuple.
DesignFinish ==
  /\ design.pc = "clusters"
  /\ \/ design.idx > Len(design.underserved)
     \/ Len(design.new_routes) >= design.in.max_new_routes
  /\ LET in == design.in
         total_population == SumSet(NeighborhoodIds,
                                    [n \in NeighborhoodIds |-> NeighborhoodPopulation(n)])
         with_stops == existing_stops(in) \cap NeighborhoodIds
         before == SumSet(with_stops, [n \in with_stops |-> NeighborhoodPopulation(n)])
         new_covered == (UNION {Range(design.new_routes[i]) : i \in DOMAIN design.new_routes}
                           \cap NeighborhoodIds) \ with_stops
         after == before + SumSet(new_covered,
                                  [n \in new_covered |-> NeighborhoodPopulation(n)])
         fleet == IF in.fleet_bus >= 0 /\ 5 * Len(design.new_routes) > in.fleet_bus
                  THEN <<[kind |-> "insufficient_fleet"]>> ELSE <<>>
         none == IF design.new_routes = <<>> THEN <<[kind |-> "no_new_routes"]>> ELSE <<>>
     IN design' = [design EXCEPT !.pc = "done",
          !.result = [raised |-> "", new_routes |-> design.new_routes,
                      coverage_stats |->
                        [total_population |-> total_population,
                         covered_population_before |-> before,
                         covered_population_after |-> after,
                         coverage_percentage_before |-> (100 * before) \div total_population,
                         coverage_percentage_after |-> (100 * after) \div total_population,
                         total_cost |-> design.total_cost],
                      recommendations |-> design.recommendations \o fleet \o none]]
  /\ UNCHANGED <<mst, router, emerg, calls, preempt>>

InitDesign ==
  /\ design \in {DesignStart(in) : in \in DesignInputs}
  /\ mst = Idle /\ router = Idle /\ emerg = Idle /\ calls = Idle /\ preempt = Idle

NextDesign ==
  \/ DesignPrepare
  \/ DesignCluster
  \/ DesignFinish

SpecDesign == InitDesign /\ [][NextDesign]_vars

(***************************************************************************)
(* Claims about design_integrated_network                                  *)
(***************************************************************************)
\* C2: the total spend reported in coverage_stats['total_cost'] never exceeds
\* max_budget, also when the first route is accepted under the 80% rule.
C2_TotalCostWithinBudget ==
  design.pc = "done" =>
    design.result.coverage_stats.total_cost <= design.in.max_budget

\* What the code keeps of C2: every route after the first fits the budget
\* left when it is accepted.
C2_LaterRoutesWithinBudget ==
  (design.pc = "done" /\ Len(design.result.new_routes) >= 1) =>
    design.result.coverage_stats.total_cost
      <= Max(design.in.max_budget, design.result.recommendations[
           CHOOSE i \in DOMAIN design.result.recommendations :
             /\ design.result.recommendations[i].kind = "proposed"
             /\ \A j \in 1..(i - 1) : design.result.recommendations[j].kind # "proposed"].cost)


(***************************************************************************)
(* The memoised optimisers: optimize_schedule_dp and optimize_public_transit*)
(* (public_transit.py), allocate_maintenance_resources_dp                  *)
(* (infrastructure_dp.py).                                                 *)
(*                                                                         *)
(* A text label is the sequence of its characters.  A memo cache is a map  *)
(* from the argument tuple to the value returned, with the number of the   *)
(* call that wrote the entry.                                              *)
(***************************************************************************)
\* The most calls one behaviour makes.
MaxCalls == 2

\* Lines 284-288.
time_periods ==
  <<<<"5", "-", "6", " ", "A", "M">>,
    <<"6", "-", "7", " ", "A", "M">>,
    <<"7", "-", "8", " ", "A", "M">>,
    <<"8", "-", "9", " ", "A", "M">>,
    <<"9", "-", "1", "0", " ", "A", "M">>,
    <<"1", "0", "-", "1", "1", " ", "A", "M">>,
    <<"1", "1", "-", "1", "2", " ", "P", "M">>,
    <<"1", "2", "-", "1", " ", "P", "M">>,
    <<"1", "-", "2", " ", "P", "M">>,
    <<"2", "-", "3", " ", "P", "M">>,
    <<"3", "-", "4", " ", "P", "M">>,
    <<"4", "-", "5", " ", "P", "M">>,
    <<"5", "-", "6", " ", "P", "M">>,
    <<"6", "-", "7", " ", "P", "M">>,
    <<"7", "-", "8", " ", "P", "M">>,
    <<"8", "-", "9", " ", "P", "M">>,
    <<"9", "-", "1", "0", " ", "P", "M">>,
    <<"1", "0", "-", "1", "1", " ", "P", "M">>,
    <<"1", "1", "-", "1", "2", " ", "A", "M">>>>

Digits == [c \in {"0", "1", "2", "3", "4", "5", "6", "7", "8", "9"} |->
             CASE c = "0" -> 0 [] c = "1" -> 1 [] c = "2" -> 2 [] c = "3" -> 3 [] c = "4" -> 4
               [] c = "5" -> 5 [] c = "6" -> 6 [] c = "7" -> 7 [] c = "8" -> 8 [] c = "9" -> 9]

\* `a in b` for strings.
Contains(b, a) ==
  \E i \in 1..(Len(b) - Len(a) + 1) : SubSeq(b, i, i + Len(a) - 1) = a

\* int(period.split("-")[0].split(" ")[0]): the digits before the first "-".
RECURSIVE LeadingInt(_, _)
LeadingInt(label, acc) ==
  IF label = <<>> \/ Head(label) \notin DOMAIN Digits THEN acc
  ELSE LeadingInt(Tail(label), 10 * acc + Digits[Head(label)])

\* Lines 307-311.
HourOf(period) ==
  LET hour == LeadingInt(period, 0)
      pm == IF Contains(period, <<"P", "M">>) /\ hour # 12 THEN hour + 12 ELSE hour
  IN IF Contains(period, <<"A", "M">>) /\ pm = 12 THEN 0 ELSE pm

\* Lines 314-319: the demand factor of the hour, in tenths.
HourFactor10(hour) ==
  IF (6 <= hour /\ hour < 9) \/ (15 <= hour /\ hour < 18) THEN 10
  ELSE IF (9 <= hour /\ hour < 15) \/ (18 <= hour /\ hour < 21) THEN 6
  ELSE 3

\* is_peak = any(period in peak for peak in peak_hours)
IsPeak(period, peak_hours) == \E i \in DOMAIN peak_hours : Contains(peak_hours[i], period)

\* The transit tables of the session; a line's stops cell is the list of its ids.
MetroLines ==
  <<[LineID |-> "M1", Stops |-> <<1, 11, 3>>, Passengers |-> 1000000],
    [LineID |-> "M3", Stops |-> <<2, 12>>, Passengers |-> 500000]>>

BusRoutes ==
  <<[RouteID |-> "B1", Stops |-> <<1, 2, 4>>, Passengers |-> 20000, Buses |-> 6],
    [RouteID |-> "B2", Stops |-> <<4, UnknownId>>, Passengers |-> 3000, Buses |-> 1],
    [RouteID |-> "B3", Stops |-> <<2, 4>>, Passengers |-> 2000, Buses |-> 1]>>

TransitDemand ==
  <<[FromID |-> 1, ToID |-> 11, Passengers |-> 12000],
    [FromID |-> 11, ToID |-> 3, Passengers |-> 6000],
    [FromID |-> 1, ToID |-> 3, Passengers |-> 6000],
    [FromID |-> 2, ToID |-> 12, Passengers |-> 4800],
    [FromID |-> 1, ToID |-> 2, Passengers |-> 9600],
    [FromID |-> 2, ToID |-> 4, Passengers |-> 1200],
    [FromID |-> 3, ToID |-> 1, Passengers |-> 2400],
    [FromID |-> 4, ToID |-> 12, Passengers |-> 20000]>>

\* The rows of a route table with the given id.
RouteRows(route_type, route_id) ==
  IF route_type = "metro"
  THEN SelectSeq(MetroLines, LAMBDA row : row.LineID = route_id)
  ELSE SelectSeq(BusRoutes, LAMBDA row : row.RouteID = route_id)

\* Lines 291-302: base_headway, base_capacity, base_resources and stops.
ScheduleBase(route_type, route_id) ==
  LET route_data == RouteRows(route_type, route_id)[1]
  IN IF route_type = "metro"
     THEN [base_headway |-> IF route_id = "M1" THEN 5 ELSE IF route_id = "M2" THEN 6 ELSE 8,
           base_capacity |-> IF route_id = "M1" THEN 1500
                             ELSE IF route_id = "M2" THEN 1200 ELSE 800,
           base_resources |-> IF route_id = "M1" THEN 8 ELSE IF route_id = "M2" THEN 7 ELSE 5,
           stops |-> route_data.Stops]
     ELSE [base_headway |-> 10, base_capacity |-> 300, base_resources |-> route_data.Buses,
           stops |-> route_data.Stops]

\* Lines 322-330: the daily demand between the ordered pairs of stops.
PairDemand(from_id, to_id) ==
  SumSeq([i \in DOMAIN TransitDemand |->
            IF TransitDemand[i].FromID = from_id /\ TransitDemand[i].ToID = to_id
            THEN TransitDemand[i].Passengers ELSE 0])

total_demand(stops) ==
  LET pairs == (DOMAIN stops) \X (DOMAIN stops)
  IN SumSet({p \in pairs : p[1] < p[2]},
            [p \in pairs |-> PairDemand(stops[p[1]], stops[p[2]])])


\* A cache of an lru_cache-wrapped function: nothing stored.
EmptyMemo == [key \in {} |-> None]

\* A cache that outlives the call that filled it.
KeptCache(cache) == cache

\* The cache an lru_cache decorator inside a function body gives the function
\* it wraps: the decorator runs on every call of the enclosing function and
\* makes a new cache, whatever an earlier call left.
NewCache(cache) == EmptyMemo

\* The state of the caches while a call runs: memo is the cache, call the
\* number of the running call, foreign whether an entry of another call was read.
MemoState(cache, call) == [memo |-> cache, call |-> call, foreign |-> FALSE]

\* A cache hit: the stored value, noting whose entry it was.
MemoRead(st, key) ==
  [value |-> st.memo[key].value,
   st |-> [st EXCEPT !.foreign = @ \/ st.memo[key].call # st.call]]

\* A cache miss: the computed value is stored under the key.
MemoWrite(st, key, value) ==
  [value |-> value,
   st |-> [st EXCEPT !.memo = (key :> [value |-> value, call |-> st.call]) @@ @]]

\* float('inf') as a cost.
Inf == -1

\* Lines 291-334: what dp_schedule closes over.  Demand is kept as daily
\* demand times the factor in tenths, so the hourly demand is demand240 / 240.
ScheduleContext(in) ==
  LET base == ScheduleBase(in.route_type, in.route_id)
  IN [route_type |-> in.route_type, peak_hours |-> in.peak_hours,
      base_headway |-> base.base_headway, base_capacity |-> base.base_capacity,
      base_resources |-> base.base_resources,
      total_demand |-> total_demand(base.stops),
      demand240 |-> [i \in DOMAIN time_periods |->
                       total_demand(base.stops) * HourFactor10(HourOf(time_periods[i]))],
      available_resources |-> (base.base_resources * in.resource_constraint) \div 100]

\* Lines 337-349.
current_schedule(ctx) ==
  [i \in DOMAIN time_periods |->
     LET is_peak == IsPeak(time_periods[i], ctx.peak_hours)
         factor10 == IF is_peak THEN 10
                     ELSE IF 2 * ctx.demand240[i] > 10 * ctx.total_demand THEN 6 ELSE 3
         headway == Max((ctx.base_headway * 10) \div factor10, 3)
         resources == Max((ctx.base_resources * factor10) \div 10, 2)
     IN [period |-> time_periods[i], headway |-> headway, resources |-> resources,
         capacity |-> (resources * ctx.base_capacity * 60) \div headway, peak |-> is_peak]]

\* Lines 372-381: the cost of running `resources` vehicles in a period, in
\* 1/480 passenger-minutes.  The penalty is exact when the headway divides
\* 14400 * resources * base_capacity.
PeriodCost(ctx, period_idx, resources) ==
  LET headway == Max(3, (ctx.base_headway * ctx.base_resources) \div resources)
      demand == ctx.demand240[period_idx + 1]
  IN headway * demand
       + (IF 14400 * resources * ctx.base_capacity < demand * headway
          THEN 20 * demand - 20 * ((14400 * resources * ctx.base_capacity) \div headway)
          ELSE 0)

\* Lines 392-398.
ScheduleEntry(ctx, period_idx, resources) ==
  LET headway == Max(3, (ctx.base_headway * ctx.base_resources) \div resources)
  IN [period |-> time_periods[period_idx + 1], headway |-> headway, resources |-> resources,
      capacity |-> (resources * ctx.base_capacity * 60) \div headway,
      peak |-> IsPeak(time_periods[period_idx + 1], ctx.peak_hours)]

\* Lines 367-368.
min_resources(ctx) == IF ctx.route_type = "metro" THEN 2 ELSE 1

max_resources(ctx, period_idx) ==
  Min(ctx.available_resources,
      IF IsPeak(time_periods[period_idx + 1], ctx.peak_hours) THEN ctx.base_resources
      ELSE (ctx.base_resources * 8) \div 10)

\* Lines 370-386: the resources the loop of a period tries.
ResourceRange(ctx, period_idx) ==
  {r \in min_resources(ctx)..max_resources(ctx, period_idx) : ctx.available_resources - r >= 0}

\* Lines 354-400: dp_schedule(period_idx, remaining_resources) on a cache
\* that holds `cache` when the call starts, as the table of its values for
\* this period followed by the tables of the later periods: a stored key
\* returns what is stored, any other key is computed from the values of the
\* next period.  The loop keeps the first allocation of the least total cost.
RECURSIVE dp_schedule(_, _, _)
dp_schedule(ctx, cache, period_idx) ==
  LET later == dp_schedule(ctx, cache, period_idx + 1)
      next == later[1]
      tried == {r \in ResourceRange(ctx, period_idx) :
                  next[ctx.available_resources - r].cost # Inf}
      total_cost == [r \in tried |->
                       PeriodCost(ctx, period_idx, r) + next[ctx.available_resources - r].cost]
      least == CHOOSE c \in Range(total_cost) : \A r \in tried : c <= total_cost[r]
      best == CHOOSE r \in tried : total_cost[r] = least
                /\ \A q \in tried : total_cost[q] = least => r <= q
      computed == IF period_idx >= Len(time_periods) THEN [cost |-> 0, schedule |-> <<>>]
                  ELSE IF tried = {} THEN [cost |-> Inf, schedule |-> <<>>]
                  ELSE [cost |-> least,
                        schedule |-> <<ScheduleEntry(ctx, period_idx, best)>>
                                       \o next[ctx.available_resources - best].schedule]
      table == [remaining_resources \in 0..ctx.available_resources |->
                  IF <<period_idx, remaining_resources>> \in DOMAIN cache
                  THEN cache[<<period_idx, remaining_resources>>].value
                  ELSE computed]
  IN IF period_idx >= Len(time_periods) THEN <<table>> ELSE <<table>> \o later

\* The arguments dp_schedule is called with, period by period from
\* period_idx on: `called` are those of this period (the top call of line
\* 403, or the calls of line 387 made by the period before).
RECURSIVE ScheduleKeys(_, _, _, _)
ScheduleKeys(ctx, cache, period_idx, called) ==
  {<<period_idx, k>> : k \in called} \cup
    (IF period_idx < Len(time_periods)
          /\ \E k \in called : <<period_idx, k>> \notin DOMAIN cache
     THEN ScheduleKeys(ctx, cache, period_idx + 1,
            {ctx.available_resources - r : r \in ResourceRange(ctx, period_idx)})
     ELSE {})

\* The cache when the call returns: every key it was called with is stored.
ScheduleMemo(cache, keys, tables, call) ==
  [key \in DOMAIN cache \cup keys |->
     IF key \in DOMAIN cache THEN cache[key]
     ELSE [value |-> tables[key[1] + 1][key[2]], call |-> call]]

\* optimize_schedule_dp run on the cache `cache` as call number `call`:
\* what it returns or raises, and the cache as the call leaves it.
RunSchedule(in, cache, call) ==
  IF RouteRows(in.route_type, in.route_id) = <<>>
  THEN [result |-> [raised |-> "IndexError"], st |-> MemoState(cache, call)]
  ELSE LET ctx == ScheduleContext(in)
           tables == dp_schedule(ctx, cache, 0)
           keys == ScheduleKeys(ctx, cache, 0, {ctx.available_resources})
       IN [result |-> [raised |-> "", current_schedule |-> current_schedule(ctx),
                       optimized_schedule |-> tables[1][ctx.available_resources].schedule],
           st |-> [memo |-> ScheduleMemo(cache, keys, tables, call), call |-> call,
                   foreign |-> \E key \in keys :
                                 key \in DOMAIN cache /\ cache[key].call # call]]

(***************************************************************************)
(* optimize_public_transit (public_transit.py)                             *)
(***************************************************************************)
\* Lines 30-55: the road graph; its nodes are listed as they were added.
TransitGraph == DesignGraph(DesignRoadCatalogue, EmptyGraph)

all_nodes == DesignNodes

\* Lines 78-80: demand_matrix[from_id][to_id]; a later row replaces an
\* earlier one, a missing pair reads as 0.
demand_matrix(from_id, to_id) ==
  LET rows == SelectSeq(TransitDemand, LAMBDA row : row.FromID = from_id /\ row.ToID = to_id)
  IN IF rows = <<>> THEN 0 ELSE rows[Len(rows)].Passengers

DemandIds ==
  Range(all_nodes) \cup {TransitDemand[i].FromID : i \in DOMAIN TransitDemand}
                   \cup {TransitDemand[i].ToID : i \in DOMAIN TransitDemand}

\* Lines 151-153.
node_demands(node) ==
  SumSet(DemandIds, [n \in DemandIds |-> demand_matrix(node, n)])
    + SumSet(DemandIds, [n \in DemandIds |-> demand_matrix(n, node)])

\* nx.shortest_path(G, a, b, weight='distance') and the sum over it: the
\* distance, or the exception the library raises.
SegmentDistance(a, b) ==
  IF a \notin DesignGraphNodes(TransitGraph) \/ b \notin DesignGraphNodes(TransitGraph)
  THEN [raised |-> "NodeNotFound", distance |-> 0]
  ELSE IF b \notin node_connected_component(DOMAIN TransitGraph, a)
  THEN [raised |-> "NetworkXNoPath", distance |-> 0]
  ELSE [raised |-> "", distance |-> shortest_path_length(TransitGraph, a, b)]

\* Lines 85-104: the demand served, summed over the pairs of positions.
RouteDemand(route) ==
  LET pairs == (DOMAIN route) \X (DOMAIN route)
  IN SumSet({p \in pairs : p[1] < p[2]},
            [p \in pairs |-> demand_matrix(route[p[1]], route[p[2]])
                               + demand_matrix(route[p[2]], route[p[1]])])

\* Lines 107-131: the length of the route, 100 for a segment without a path.
RouteDistance(route) ==
  SumSeq([i \in 1..(Len(route) - 1) |->
            IF SegmentDistance(route[i], route[i + 1]).raised = "NetworkXNoPath" THEN 100
            ELSE SegmentDistance(route[i], route[i + 1]).distance])

\* Lines 83-144.  NodeNotFound is not caught inside.
calculate_route_performance(route, route_type) ==
  IF \E i \in 1..(Len(route) - 1) : SegmentDistance(route[i], route[i + 1]).raised = "NodeNotFound"
  THEN [raised |-> "NodeNotFound", demand |-> 0, distance |-> 0, resources |-> 0]
  ELSE [raised |-> "", demand |-> RouteDemand(route), distance |-> RouteDistance(route),
        resources |-> IF route_type = "bus"
                      THEN Max(5, (RouteDistance(route) \div 5) + (RouteDemand(route) \div 10000))
                      ELSE Max(3, (RouteDistance(route) \div 10) + (RouteDemand(route) \div 20000))]

\* The key of dp(current_pos, remaining_stops) called without last_added.
NotPassed == 0

\* Lines 171-181: the value of stepping to next_pos.
StepValue(optimize_for, current_pos, next_pos) ==
  IF optimize_for = "Passenger Capacity" THEN node_demands(next_pos)
  ELSE IF optimize_for = "Travel Time"
  THEN (IF SegmentDistance(current_pos, next_pos).raised # "" THEN -100
        ELSE -SegmentDistance(current_pos, next_pos).distance)
  ELSE -1

\* Lines 158-191: dp behind its cache, and the loop of lines 166-189 from
\* the i-th node on with the best found so far.
RECURSIVE dp(_, _, _, _, _)
RECURSIVE DpLoop(_, _, _, _, _, _)
dp(optimize_for, current_pos, remaining_stops, last_added, st) ==
  LET key == <<current_pos, remaining_stops, last_added>>
  IN IF key \in DOMAIN st.memo THEN MemoRead(st, key)
     ELSE IF remaining_stops = 0 THEN MemoWrite(st, key, [value |-> 0, route |-> <<>>])
     ELSE LET r == DpLoop(optimize_for, current_pos, remaining_stops, 1,
                          [value |-> -1, route |-> <<>>], st)
          IN MemoWrite(r.st, key, r.value)

DpLoop(optimize_for, current_pos, remaining_stops, i, best, st) ==
  IF i > Len(all_nodes) THEN [value |-> best, st |-> st]
  ELSE IF all_nodes[i] = current_pos
  THEN DpLoop(optimize_for, current_pos, remaining_stops, i + 1, best, st)
  ELSE LET sub == dp(optimize_for, all_nodes[i], remaining_stops - 1, current_pos, st)
           total_value == StepValue(optimize_for, current_pos, all_nodes[i]) + sub.value.value
       IN DpLoop(optimize_for, current_pos, remaining_stops, i + 1,
                 IF total_value > best.value
                 THEN [value |-> total_value, route |-> <<all_nodes[i]>> \o sub.value.route]
                 ELSE best,
                 sub.st)

\* Lines 194-203: the loop over the start nodes from the i-th stop on.
RECURSIVE optimize_route_dp(_, _, _, _, _)
optimize_route_dp(current_route, optimize_for, i, best, st) ==
  IF i > Len(current_route) THEN [value |-> best, st |-> st]
  ELSE LET r == dp(optimize_for, current_route[i], Len(current_route), NotPassed, st)
       IN optimize_route_dp(current_route, optimize_for, i + 1,
                            IF r.value.value > best.value
                            THEN [value |-> r.value.value,
                                  route |-> <<current_route[i]>> \o r.value.route]
                            ELSE best,
                            r.st)


\* One entry of suggested_changes: its kind, the stops and the number it names.
Suggestion(kind, stops, amount) == [kind |-> kind, stops |-> stops, amount |-> amount]

\* Lines 226-240.
RouteSuggestions(current_route, optimized_route, optimize_for, current_distance, opt_distance) ==
  LET added_stops == Range(optimized_route) \ Range(current_route)
      removed_stops == Range(current_route) \ Range(optimized_route)
  IN (IF added_stops # {} THEN <<Suggestion("Add stops", added_stops, 0)>> ELSE <<>>)
       \o (IF removed_stops # {} THEN <<Suggestion("Remove stops", removed_stops, 0)>> ELSE <<>>)
       \o (IF optimize_for = "Travel Time" /\ current_distance - opt_distance > 0
           THEN <<Suggestion("Travel time reduction", {}, current_distance - opt_distance)>>
           ELSE <<>>)
       \o (IF added_stops = {} /\ removed_stops = {}
           THEN <<Suggestion("Already optimal", {}, 0)>> ELSE <<>>)

\* Lines 251 and 261: the fleet recommended for Resource Efficiency.
OptimalFleet(route_type, route_length, passengers) ==
  IF route_type = "bus" THEN Max(5, (route_length \div 4) + (passengers \div 2000))
  ELSE Max(3, (route_length \div 10) + (passengers \div 25000))

\* Lines 252-262.
FleetSuggestion(route_type, optimal, buses_assigned) ==
  IF route_type # "bus" THEN Suggestion("Recommended trains", {}, optimal)
  ELSE IF optimal < buses_assigned THEN Suggestion("Reduce fleet", {}, optimal)
  ELSE IF optimal > buses_assigned THEN Suggestion("Increase fleet", {}, optimal)
  ELSE Suggestion("Bus allocation optimal", {}, optimal)

\* What optimize_public_transit returns; a key a dictionary lacks reads -1,
\* and optimized_route None is the flag optimization_failed.
TransitReturned(failed, route, passengers, buses, opt_demand, opt_distance, opt_resources, changes) ==
  [raised |-> "", optimization_failed |-> failed, optimized_route |-> route,
   current_performance |-> [passengers |-> passengers, resources |-> buses],
   optimized_performance |-> [passengers |-> opt_demand, distance |-> opt_distance,
                              resources |-> opt_resources],
   suggested_changes |-> changes]

\* Lines 205-265, once dp has given the route.
TransitFinish(in, row, optimized_route) ==
  LET bus == in.route_type = "bus"
      buses == IF bus THEN row.Buses ELSE -1
      current == calculate_route_performance(row.Stops, in.route_type)
      opt == calculate_route_performance(optimized_route, in.route_type)
      efficiency == in.optimize_for = "Resource Efficiency" /\ optimized_route # <<>>
      fleet == OptimalFleet(in.route_type, opt.distance, opt.demand)
  IN IF opt.raised # ""
     THEN TransitReturned(TRUE, <<>>, row.Passengers, buses, -1, -1, -1,
                          <<Suggestion("Optimization failed", {}, 0)>>)
     ELSE TransitReturned(FALSE, optimized_route, row.Passengers, buses, opt.demand,
            opt.distance,
            IF efficiency THEN fleet ELSE IF bus THEN opt.resources ELSE -1,
            RouteSuggestions(row.Stops, optimized_route, in.optimize_for,
                             current.distance, opt.distance)
              \o (IF efficiency
                  THEN <<FleetSuggestion(in.route_type, fleet, buses)>> ELSE <<>>))

\* optimize_public_transit run on the cache `cache` as call number `call`:
\* what it returns or raises, and the cache as the call leaves it.
RunTransit(in, cache, call) ==
  IF RouteRows(in.route_type, in.route_id) = <<>>
  THEN [result |-> [raised |-> "IndexError"], st |-> MemoState(cache, call)]
  ELSE LET row == RouteRows(in.route_type, in.route_id)[1]
       IN IF calculate_route_performance(row.Stops, in.route_type).raised # ""
          THEN [result |-> [raised |-> "NodeNotFound"], st |-> MemoState(cache, call)]
          ELSE LET r == optimize_route_dp(row.Stops, in.optimize_for, 1,
                                          [value |-> -1, route |-> <<>>],
                                          MemoState(cache, call))
               IN [result |-> TransitFinish(in, row, r.value.route), st |-> r.st]

(***************************************************************************)
(* allocate_maintenance_resources_dp (infrastructure_dp.py)                *)
(***************************************************************************)
\* The roads table: the condition of each road, and its length in half
\* kilometres.
MaintenanceRoads ==
  <<[FromID |-> 1, ToID |-> 2, Condition |-> 3, Length2 |-> 1],
    [FromID |-> 2, ToID |-> 11, Condition |-> 5, Length2 |-> 3],
    [FromID |-> 1, ToID |-> 3, Condition |-> 9, Length2 |-> 3]>>

\* The budgets, in 0.01 million EGP (1.00, 1.24 and 3.00 million EGP), and
\* the numbers of periods a caller passes.
MaintenanceBudgets == {100, 124, 300}

\* Line 66: int(budget * 100) of a budget given in hundredths.
BudgetUnits(budget) == budget

MaintenancePeriods == {2}

\* Lines 30-41: investment_levels[level] * 100 of a road, in half budget
\* units: (10 - condition) * length * (level / 4) * 100.
Investment2(road, level) == 25 * level * (10 - road.Condition) * road.Length2

\* Lines 45-50: improvements[level] of a road, in quarters.
Improvement4(road, level) ==
  level * (IF road.Condition <= 3 THEN 3 ELSE IF road.Condition <= 6 THEN 2 ELSE 1)

\* Lines 104-141: the allocations the loops try under budget b, each a
\* sequence of up to three (road, level) pairs with rising road index.
Allocations(b) ==
  LET pairs == (DOMAIN MaintenanceRoads) \X (0..3)
      seqs == UNION {[1..n -> pairs] : n \in 1..3}
  IN {a \in seqs :
        /\ \A i \in 1..(Len(a) - 1) : a[i][1] < a[i + 1][1]
        /\ SumSeq([i \in DOMAIN a |-> Investment2(MaintenanceRoads[a[i][1]], a[i][2]) \div 2]) <= b}

AllocationImprovement4(a) ==
  SumSeq([i \in DOMAIN a |-> Improvement4(MaintenanceRoads[a[i][1]], a[i][2])])

\* The order in which the nested loops reach two allocations.
RECURSIVE TriedBefore(_, _)
TriedBefore(a, b) ==
  IF a = <<>> THEN b # <<>>
  ELSE IF b = <<>> THEN FALSE
  ELSE IF Head(a) # Head(b)
  THEN Head(a)[1] < Head(b)[1] \/ (Head(a)[1] = Head(b)[1] /\ Head(a)[2] < Head(b)[2])
  ELSE TriedBefore(Tail(a), Tail(b))

\* Lines 100-144: decisions[t][b] and dp[t][b]; the first allocation of the
\* most improvement, or None (the empty allocation) when nothing improves.
BestAllocation(b) ==
  LET improvement == [a \in Allocations(b) |-> AllocationImprovement4(a)]
      most == CHOOSE m \in {0} \cup Range(improvement) :
                \A a \in DOMAIN improvement : improvement[a] <= m
      first == {a \in DOMAIN improvement : improvement[a] = most}
  IN IF most = 0 THEN <<>>
     ELSE CHOOSE a \in first : \A c \in first \ {a} : TriedBefore(a, c)

\* decisions[t][b] for a remaining budget b: a negative index counts from
\* the end of the row of budget_units + 1 entries.
TableIndex(budget_units, b) == IF b < 0 THEN budget_units + 1 + b ELSE b

\* Lines 166-176: the rows one period adds to allocation_plan.
PlanRows(t, allocation) ==
  [i \in DOMAIN allocation |->
     LET road == MaintenanceRoads[allocation[i][1]]
     IN [period |-> t, from_id |-> road.FromID, to_id |-> road.ToID,
         investment2 |-> Investment2(road, allocation[i][2]),
         improvement4 |-> Improvement4(road, allocation[i][2]),
         new_condition4 |-> Min(40, 4 * road.Condition + Improvement4(road, allocation[i][2]))]]

\* Lines 151-176: the reconstruction from period t on.
RECURSIVE Reconstruct(_, _, _, _, _, _)
Reconstruct(budget_units, time_periods_n, t, remaining_budget, total_improvement4, plan) ==
  IF t > time_periods_n
  THEN [raised |-> "", plan |-> plan, total_improvement4 |-> total_improvement4,
        remaining_budget |-> remaining_budget]
  ELSE IF TableIndex(budget_units, remaining_budget) < 0
  THEN [raised |-> "IndexError", plan |-> plan, total_improvement4 |-> total_improvement4,
        remaining_budget |-> remaining_budget]
  ELSE LET allocation == BestAllocation(TableIndex(budget_units, remaining_budget))
           period_cost2 == SumSeq([i \in DOMAIN allocation |->
                             Investment2(MaintenanceRoads[allocation[i][1]], allocation[i][2])])
       IN Reconstruct(budget_units, time_periods_n, t + 1,
                      remaining_budget - (period_cost2 \div 2),
                      total_improvement4 + AllocationImprovement4(allocation),
                      plan \o PlanRows(t, allocation))

\* Lines 179-188: what the function returns; the budget in budget units, the
\* averages rounded down.
MaintenanceReturned(budget_units, r) ==
  LET used == budget_units - r.remaining_budget
      roads == {<<r.plan[i].from_id, r.plan[i].to_id>> : i \in DOMAIN r.plan}
  IN [raised |-> "", allocation_plan |-> r.plan, total_improvement4 |-> r.total_improvement4,
      budget_used |-> used,
      allocation_metrics |->
        [total_roads_improved |-> Cardinality(roads),
         avg_improvement_per_road4 |-> r.total_improvement4 \div Max(1, Cardinality(roads)),
         budget_efficiency4 |-> (r.total_improvement4 * 100) \div Max(10, used),
         pct_budget_used |-> IF budget_units > 0 THEN (used * 100) \div budget_units ELSE 0]]

\* allocate_maintenance_resources_dp run on the caches of calculate_improvement
\* and calculate_cost: neither function is ever called, so nothing is read
\* and nothing is stored.
RunMaintenance(in, cache, call) ==
  LET r == Reconstruct(BudgetUnits(in.budget), in.time_periods, 1, BudgetUnits(in.budget),
                       0, <<>>)
  IN [result |-> IF r.raised # "" THEN [raised |-> r.raised]
                 ELSE MaintenanceReturned(BudgetUnits(in.budget), r),
      st |-> MemoState(cache, call)]

(***************************************************************************)
(* A session: the three optimisers called one after another                *)
(***************************************************************************)
UIPeakHours == <<<<"6", "-", "9", " ", "A", "M">>, <<"3", "-", "6", " ", "P", "M">>>>

ScheduleInputs ==
  {[route_type |-> "metro", route_id |-> "M1", peak_hours |-> UIPeakHours, resource_constraint |-> 100],
   [route_type |-> "metro", route_id |-> "M3", peak_hours |-> UIPeakHours, resource_constraint |-> 130],
   [route_type |-> "bus", route_id |-> "B1", peak_hours |-> <<<<"7", "-", "8", " ", "A", "M">>>>, resource_constraint |-> 100],
   [route_type |-> "bus", route_id |-> "B2", peak_hours |-> UIPeakHours, resource_constraint |-> 100],
   [route_type |-> "bus", route_id |-> "B3", peak_hours |-> UIPeakHours, resource_constraint |-> 100],
   [route_type |-> "metro", route_id |-> "M9", peak_hours |-> UIPeakHours, resource_constraint |-> 100]}

TransitInputs ==
  {[route_type |-> "metro", route_id |-> "M1", optimize_for |-> "Passenger Capacity"],
   [route_type |-> "metro", route_id |-> "M1", optimize_for |-> "Travel Time"],
   [route_type |-> "bus", route_id |-> "B1", optimize_for |-> "Resource Efficiency"],
   [route_type |-> "bus", route_id |-> "B2", optimize_for |-> "Passenger Capacity"]}

MaintenanceInputs ==
  {[budget |-> b, time_periods |-> t] : b \in MaintenanceBudgets, t \in MaintenancePeriods}

NoCall == [fn |-> "", in |-> [none |-> TRUE]]

CallsStart ==
  [pc |-> "ready", n |-> 0, last |-> NoCall, prev |-> NoCall, result |-> [raised |-> ""],
   dp_cache |-> EmptyMemo, schedule_cache |-> EmptyMemo, maintenance_cache |-> EmptyMemo,
   foreign |-> FALSE]

\* The bookkeeping of a finished call.
Called(fn, in, run) ==
  [calls EXCEPT !.n = @ + 1, !.prev = calls.last, !.last = [fn |-> fn, in |-> in],
                !.result = run.result, !.foreign = run.st.foreign]

\* One call of optimize_public_transit, from entry to return.
CallTransit ==
  /\ calls.pc = "ready" /\ calls.n < MaxCalls
  /\ \E in \in TransitInputs :
       LET run == RunTransit(in, NewCache(calls.dp_cache), calls.n + 1)
       IN calls' = [Called("optimize_public_transit", in, run) EXCEPT !.dp_cache = run.st.memo]
  /\ UNCHANGED <<mst, router, emerg, design, preempt>>

\* One call of optimize_schedule_dp, from entry to return.
CallSchedule ==
  /\ calls.pc = "ready" /\ calls.n < MaxCalls
  /\ \E in \in ScheduleInputs :
       LET run == RunSchedule(in, NewCache(calls.schedule_cache), calls.n + 1)
       IN calls' = [Called("optimize_schedule_dp", in, run) EXCEPT !.schedule_cache = run.st.memo]
  /\ UNCHANGED <<mst, router, emerg, design, preempt>>

\* One call of allocate_maintenance_resources_dp, from entry to return.
CallMaintenance ==
  /\ calls.pc = "ready" /\ calls.n < MaxCalls
  /\ \E in \in MaintenanceInputs :
       LET run == RunMaintenance(in, NewCache(calls.maintenance_cache), calls.n + 1)
       IN calls' = [Called("allocate_maintenance_resources_dp", in, run)
                      EXCEPT !.maintenance_cache = run.st.memo]
  /\ UNCHANGED <<mst, router, emerg, design, preempt>>

InitCalls ==
  /\ calls = CallsStart
  /\ mst = Idle /\ router = Idle /\ emerg = Idle /\ design = Idle /\ preempt = Idle

NextCalls ==
  \/ CallTransit
  \/ CallSchedule
  \/ CallMaintenance

SpecCalls == InitCalls /\ [][NextCalls]_vars

(***************************************************************************)
(* Claims about the memo caches                                            *)
(***************************************************************************)
\* What a call returns when it is the first call ever made.
FirstCall(fn, in) ==
  IF fn = "optimize_public_transit" THEN RunTransit(in, EmptyMemo, 1).result
  ELSE IF fn = "optimize_schedule_dp" THEN RunSchedule(in, EmptyMemo, 1).result
  ELSE RunMaintenance(in, EmptyMemo, 1).result

\* C10: memo caches do not leak between requests: whatever calls came before,
\* a call of optimize_public_transit, optimize_schedule_dp or
\* allocate_maintenance_resources_dp returns exactly what it would return as
\* the first call ever made, and it reads no memo entry another call wrote.
C10_NoLeak ==
  calls.pc = "ready" /\ calls.n > 0 =>
    /\ calls.result = FirstCall(calls.last.fn, calls.last.in)
    /\ ~calls.foreign
    /\ \A key \in DOMAIN calls.dp_cache : calls.last.fn = "optimize_public_transit" =>
         calls.dp_cache[key].call = calls.n
    /\ \A key \in DOMAIN calls.schedule_cache : calls.last.fn = "optimize_schedule_dp" =>
         calls.schedule_cache[key].call = calls.n

\* A second call of optimize_schedule_dp for another route with the same
\* available resources, so that its first cache key is one the call before
\* it used too, has filled its cache and returned a full schedule.
C10_Witness ==
  /\ calls.pc = "ready" /\ calls.n = 2
  /\ calls.last.fn = "optimize_schedule_dp" /\ calls.prev.fn = "optimize_schedule_dp"
  /\ calls.last.in.route_id = "B1" /\ calls.prev.in.route_id = "M3"
  /\ calls.last.in.resource_constraint = 100 /\ calls.prev.in.resource_constraint = 130
  /\ <<0, 6>> \in DOMAIN calls.schedule_cache
  /\ calls.result.raised = "" /\ Len(calls.result.optimized_schedule) = Len(time_periods)


(***************************************************************************)
(* Signal preemption: preempt_intersection_signals (emergency_response.py) *)
(* and emergency_vehicle_preemption (traffic_signals.py), run on the same  *)
(* intersections, signal plans, route and traffic table.                   *)
(*                                                                         *)
(* Volumes are in 100 veh/h, cycle times in seconds.                       *)
(***************************************************************************)
\* The routes handed to the two functions.
PreemptRoutes == {<<>>, <<11>>, <<11, 3>>, <<11, 2, 3>>, <<11, 3, 1>>, <<11, 2, 3, 1>>}

\* traffic_flow restricted to the chosen time column.
PreemptTraffic ==
  {<<>>,
   <<[FromID |-> 11, ToID |-> 2, Volume |-> 5]>>,
   <<[FromID |-> 2, ToID |-> 11, Volume |-> 5]>>,
   <<[FromID |-> 11, ToID |-> 2, Volume |-> 10]>>,
   <<[FromID |-> 11, ToID |-> 2, Volume |-> 12], [FromID |-> 2, ToID |-> 3, Volume |-> 20]>>,
   <<[FromID |-> 11, ToID |-> 2, Volume |-> 4], [FromID |-> 2, ToID |-> 3, Volume |-> 4],
     [FromID |-> 3, ToID |-> 2, Volume |-> 4]>>}

\* intersections (the ids that are keys) and signals (id -> cycle_time).
PreemptSignals ==
  SignalTables \cup {[intersections |-> {2, 3}, signals |-> (2 :> 60)]}

PreemptInputs ==
  {[intersections |-> sig.intersections, signals |-> sig.signals, emergency_route |-> route,
    traffic_flow |-> traffic] :
      sig \in PreemptSignals, route \in PreemptRoutes, traffic \in PreemptTraffic}

\* traffic_signals.py lines 159-162: the volume summed over every row that
\* starts or ends at the node.
total_volume(traffic_flow, node_id) ==
  SumSeq([i \in DOMAIN traffic_flow |->
            IF traffic_flow[i].ToID = node_id \/ traffic_flow[i].FromID = node_id
            THEN traffic_flow[i].Volume ELSE 0])

\* traffic_signals.py lines 152-197: the plan of emergency_vehicle_preemption.
controller_plan(intersections, signals, emergency_route, traffic_flow) ==
  LET interior == {i \in 2..(Len(emergency_route) - 1) :
                     /\ emergency_route[i] \in intersections
                     /\ emergency_route[i] \in DOMAIN signals}
      entry(i) ==
        LET node_id == emergency_route[i]
            volume == total_volume(traffic_flow, node_id)
        IN IF volume > congestion_threshold
           THEN [preemption_effective |-> TRUE,
                 primary_direction |-> <<emergency_route[i - 1], emergency_route[i + 1]>>,
                 time_saved |-> signals[node_id] \div 2,
                 emergency_green_time |-> 15 + ((volume - congestion_threshold) \div 5),
                 reason |-> ""]
           ELSE [preemption_effective |-> FALSE, primary_direction |-> <<>>,
                 time_saved |-> 0, emergency_green_time |-> 0,
                 reason |-> "Low congestion, no preemption needed"]
  IN [n \in {emergency_route[i] : i \in interior} |->
        entry(CHOOSE i \in interior : emergency_route[i] = n)]

NoPlan == [plan |-> EmptyDict, total_time_saved |-> 0]

PreemptStart(in) ==
  [pc |-> "ready", in |-> in, router_done |-> FALSE, router |-> NoPlan,
   controller_done |-> FALSE, controller |-> NoPlan]

\* One call of preempt_intersection_signals.
PreemptRouter ==
  /\ preempt.pc = "ready" /\ ~preempt.router_done
  /\ LET in == preempt.in
         plan == preemption_plan(in.intersections, in.signals, in.emergency_route,
                                 in.traffic_flow)
     IN preempt' = [preempt EXCEPT !.router_done = TRUE,
                      !.router = [plan |-> plan, total_time_saved |-> total_time_saved(plan)]]
  /\ UNCHANGED <<mst, router, emerg, design, calls>>

\* One call of emergency_vehicle_preemption.
PreemptController ==
  /\ preempt.pc = "ready" /\ ~preempt.controller_done
  /\ LET in == preempt.in
         plan == IF Len(in.emergency_route) < 2 THEN EmptyDict
                 ELSE controller_plan(in.intersections, in.signals, in.emergency_route,
                                      in.traffic_flow)
     IN preempt' = [preempt EXCEPT !.controller_done = TRUE,
                      !.controller = [plan |-> plan,
                                      total_time_saved |-> total_time_saved(plan)]]
  /\ UNCHANGED <<mst, router, emerg, design, calls>>

InitPreempt ==
  /\ preempt \in {PreemptStart(in) : in \in PreemptInputs}
  /\ mst = Idle /\ router = Idle /\ emerg = Idle /\ design = Idle /\ calls = Idle

NextPreempt ==
  \/ PreemptRouter
  \/ PreemptController

SpecPreempt == InitPreempt /\ [][NextPreempt]_vars


(***************************************************************************)
(* Claims about signal preemption                                          *)
(***************************************************************************)
\* The positions of a route that are interior and are intersections with a
\* signal plan.
SignalledInterior(in) ==
  {i \in 2..(Len(in.emergency_route) - 1) :
     /\ in.emergency_route[i] \in in.intersections
     /\ in.emergency_route[i] \in DOMAIN in.signals}

\* The rows of the road between a and b, in either direction.
RoadRecords(traffic_flow, a, b) ==
  SelectSeq(traffic_flow, LAMBDA r : (r.FromID = a /\ r.ToID = b) \/ (r.FromID = b /\ r.ToID = a))

\* The shape of the router's plan: an entry for exactly the signalled interior
\* nodes, none for the endpoints, and the time saved of each entry and in total.
PlanShape(in, out) ==
  /\ DOMAIN out.plan = {in.emergency_route[i] : i \in SignalledInterior(in)}
  /\ in.emergency_route # <<>> =>
       /\ in.emergency_route[1] \notin DOMAIN out.plan
       /\ in.emergency_route[Len(in.emergency_route)] \notin DOMAIN out.plan
  /\ \A n \in DOMAIN out.plan :
       out.plan[n].time_saved = IF out.plan[n].preemption_effective
                                THEN in.signals[n] \div 2 ELSE 0
  /\ out.total_time_saved =
       SumSet({n \in DOMAIN out.plan : out.plan[n].preemption_effective},
              [n \in DOMAIN out.plan |-> in.signals[n] \div 2])

\* C11: the plan of preempt_intersection_signals has an entry for every
\* signalled interior node of the path and none for its endpoints; an entry is
\* effective if and only if the volume of the incoming road, whichever way
\* round its record is stored, is at least the threshold; effective entries
\* save half the cycle time, the others 0, and the total is their sum.
C11_SymmetricLookup ==
  preempt.pc = "ready" /\ preempt.router_done =>
    /\ PlanShape(preempt.in, preempt.router)
    /\ \A i \in SignalledInterior(preempt.in) :
         LET route == preempt.in.emergency_route
             records == RoadRecords(preempt.in.traffic_flow, route[i - 1], route[i])
         IN records # <<>> =>
              (preempt.router.plan[route[i]].preemption_effective
                 <=> records[1].Volume >= congestion_threshold)

\* What the code keeps of C11: the same with the record looked up from the
\* previous node to this node only, a missing record counting as the threshold.
C11_DirectedLookup ==
  preempt.pc = "ready" /\ preempt.router_done =>
    /\ PlanShape(preempt.in, preempt.router)
    /\ \A i \in SignalledInterior(preempt.in) :
         LET route == preempt.in.emergency_route
         IN preempt.router.plan[route[i]].preemption_effective
              <=> IncomingVolume(preempt.in.traffic_flow, route[i - 1], route[i])
                    >= congestion_threshold

\* An entry as the scenario of a quiet intersection requires it.
LowTrafficEntry(entry) ==
  /\ ~entry.preemption_effective
  /\ entry.reason = "Low traffic volume"
  /\ entry.time_saved = 0

\* C12: a signalled interior intersection none of whose roads has a traffic
\* record gets a plan entry with preemption_effective False, the reason
\* "Low traffic volume" and time_saved 0.
C12_NoRecordLowTraffic ==
  preempt.pc = "ready" /\ preempt.router_done /\ preempt.controller_done =>
    \A i \in SignalledInterior(preempt.in) :
      LET node_id == preempt.in.emergency_route[i]
      IN (\A k \in DOMAIN preempt.in.traffic_flow :
            preempt.in.traffic_flow[k].FromID # node_id
              /\ preempt.in.traffic_flow[k].ToID # node_id) =>
           /\ LowTrafficEntry(preempt.router.plan[node_id])
           /\ LowTrafficEntry(preempt.controller.plan[node_id])

EffectiveNodes(out) == {n \in DOMAIN out.plan : out.plan[n].preemption_effective}

\* C13: run on the same intersections, signal plans, route and traffic table,
\* emergency_vehicle_preemption and preempt_intersection_signals mark the same
\* intersections as preemption-effective and report the same total time saved.
C13_SameDecision ==
  preempt.pc = "ready" /\ preempt.router_done /\ preempt.controller_done =>
    /\ EffectiveNodes(preempt.router) = EffectiveNodes(preempt.controller)
    /\ preempt.router.total_time_saved = preempt.controller.total_time_saved

(***************************************************************************)
(* The provisional backbone of create_mst_network                          *)
(***************************************************************************)

\* The union graph and the candidate list the two algorithms are given.
Backbones(in) ==
  LET G == ExistingGraph(in.existing_roads, EmptyGraph)
      acc == AddPotential(in, in.potential_roads.rows, [G_potential |-> G, edges |-> <<>>])
  IN [G |-> G, G_potential |-> acc.G_potential,
      by_kruskal |-> kruskal(acc.G_potential, acc.edges),
      by_prim |-> prim(in, acc.G_potential)]

BackboneWeight(mst_edges) == SumSeq([i \in DOMAIN mst_edges |-> mst_edges[i].data.weight])

\* The edges of G lighter than `weight`.
Lighter(G, weight) == {e \in DOMAIN G : G[e].weight < weight}

\* A candidate of the backbone whose endpoints the existing roads join by a
\* path of lighter edges.
Redundant(G, mst_edges) ==
  {i \in DOMAIN mst_edges :
     /\ mst_edges[i].data.road_type = "potential"
     /\ mst_edges[i].v \in
          node_connected_component(Lighter(G, mst_edges[i].data.weight), mst_edges[i].u)}

\* Every node of the input is on the union graph's one component.
UnionConnected(in, G_potential) ==
  node_connected_component(DOMAIN G_potential, NodeOrder(in)[1]) = Range(NodeOrder(in))

\* C14: once the backbone is computed on an input whose union graph of
\* existing and candidate roads is connected, kruskal and prim select
\* backbones of equal total weight, and neither selects a candidate road
\* whose endpoints are already joined by a cheaper path of existing roads.
C14_MinimumBackbone ==
  mst.pc = "admit" /\ mst.in.potential_roads.given =>
    LET b == Backbones(mst.in)
    IN UnionConnected(mst.in, b.G_potential) =>
         /\ BackboneWeight(b.by_kruskal) = BackboneWeight(b.by_prim)
         /\ Redundant(b.G, b.by_kruskal) = {}
         /\ Redundant(b.G, b.by_prim) = {}

(***************************************************************************)
(* The schedules of optimize_schedule_dp                                   *)
(***************************************************************************)

\* A schedule with one entry per time period, in the order of time_periods.
FullDay(schedule) ==
  /\ Len(schedule) = Len(time_periods)
  /\ \A i \in DOMAIN schedule : schedule[i].period = time_periods[i]

ScheduleReturned ==
  calls.pc = "ready" /\ calls.n > 0 /\ calls.last.fn = "optimize_schedule_dp"
    /\ calls.result.raised = ""

\* C15: whenever optimize_schedule_dp returns for a route of the tables, the
\* current schedule and the optimized schedule both hold exactly 19 entries,
\* one per hourly slot in slot order from 5-6 AM to 11-12 AM.
C15_NineteenSlots ==
  ScheduleReturned =>
    /\ Len(time_periods) = 19
    /\ FullDay(calls.result.current_schedule)
    /\ FullDay(calls.result.optimized_schedule)

\* The current schedule alone is always complete.
C15_CurrentSchedule ==
  ScheduleReturned => FullDay(calls.result.current_schedule)

\* The optimized schedule is complete when every period admits some resource
\* count between min_resources and max_resources.
C15_EnoughVehicles ==
  ScheduleReturned =>
    LET ctx == ScheduleContext(calls.last.in)
    IN (\A i \in DOMAIN time_periods : ResourceRange(ctx, i - 1) # {}) =>
         FullDay(calls.result.optimized_schedule)

(***************************************************************************)
(* The budget of allocate_maintenance_resources_dp                         *)
(***************************************************************************)

MaintenanceCalled ==
  calls.pc = "ready" /\ calls.n > 0 /\ calls.last.fn = "allocate_maintenance_resources_dp"

\* The budget units left after the periods up to t, from the returned plan:
\* each period subtracts int(period_cost).
RemainingAfter(budget, plan, t) ==
  BudgetUnits(budget)
    - SumSeq([p \in 1..t |->
        SumSeq([i \in DOMAIN plan |->
                  IF plan[i].period = p THEN plan[i].investment2 ELSE 0]) \div 2])

\* C16: whenever allocate_maintenance_resources_dp has been called, it returns
\* (raises nothing), the remaining budget is non-negative after every
\* period's allocation is subtracted, and budget_used does not exceed the
\* supplied budget.
C16_WithinBudget ==
  MaintenanceCalled =>
    /\ calls.result.raised = ""
    /\ \A t \in 1..calls.last.in.time_periods :
         RemainingAfter(calls.last.in.budget, calls.result.allocation_plan, t) >= 0
    /\ calls.result.budget_used <= BudgetUnits(calls.last.in.budget)

\* The same for budgets of whole million EGP.
C16_WholeBudgets ==
  MaintenanceCalled /\ calls.last.in.budget % 100 = 0 =>
    /\ calls.result.raised = ""
    /\ calls.result.budget_used <= BudgetUnits(calls.last.in.budget)

(***************************************************************************)
(* The accepted routes of design_integrated_network                        *)
(***************************************************************************)

\* The nodes two routes share.
Shared(a, b) == Range(a) \cap Range(b)

\* C17: at every point of the route loop, no accepted route shares more
\* than 50% of the nodes of a route accepted before it, and at most
\* max_new_routes routes are accepted.
C17_DistinctRoutes ==
  design.pc \in {"clusters", "done"} =>
    /\ Len(design.new_routes) <= design.in.max_new_routes
    /\ \A j \in DOMAIN design.new_routes : \A i \in 1..(j - 1) :
         2 * Cardinality(Shared(design.new_routes[j], design.new_routes[i]))
           <= Cardinality(Range(design.new_routes[i]))

\* What line 636 ensures: the share is at most half of the later route's
\* own length; and the route count is capped.
C17_HalfOfNewPath ==
  design.pc \in {"clusters", "done"} =>
    /\ Len(design.new_routes) <= design.in.max_new_routes
    /\ \A j \in DOMAIN design.new_routes : \A i \in 1..(j - 1) :
         2 * Cardinality(Shared(design.new_routes[j], design.new_routes[i]))
           <= Len(design.new_routes[j])

(***************************************************************************)
(* The alternatives loop of optimize_traffic_flow                          *)
(***************************************************************************)

\* Some iteration of the alternatives loop has run; G_alt is the graph it searched.
AlternativeSearched == router.pc \in {"alternatives", "done"} /\ router.i >= 1

\* C18: after each iteration of the alternatives loop, the graph that the
\* iteration searched contains none of the optimal-path edges removed in
\* this or an earlier iteration.
C18_RemovalsAccumulate ==
  AlternativeSearched => DOMAIN router.G_alt \cap router.excluded_edges = {}

\* What the loop does: the graph searched in iteration i is G without the
\* i-th edge of the optimal path, and G alone once the path's edges are used up.
C18_OneEdgeRemoved ==
  AlternativeSearched =>
    LET i == router.i - 1
    IN DOMAIN router.G_alt =
         IF i < Len(router.optimal_path) - 1
         THEN DOMAIN router.G \ {EdgeKey(router.optimal_path[i + 1], router.optimal_path[i + 2])}
         ELSE DOMAIN router.G

\* The share of edges an alternative has in common with the optimal path is
\* at most 1 - diversity_threshold = 0.7 of the longer of the two edge sets.
SharesAtMost70(optimal_path, alt_path) ==
  LET common == Cardinality(PathEdges(optimal_path) \cap PathEdges(alt_path))
      longest == Max(Cardinality(PathEdges(optimal_path)), Cardinality(PathEdges(alt_path)))
  IN 10 * common <= 7 * longest

\* C19: throughout the alternatives loop and in the returned result there
\* are at most max_alternatives alternatives, they are pairwise distinct, and
\* every alternative after the first accepted one shares at most 70% of
\* edges with the optimal path (diversity >= 0.3).
C19_Acceptance ==
  router.pc \in {"alternatives", "done"} =>
    LET alts == IF router.pc = "done" THEN router.result.alternative_paths
                ELSE router.alternative_paths
    IN /\ Len(alts) <= router.in.max_alternatives
       /\ \A j, k \in DOMAIN alts : j # k => alts[j] # alts[k]
       /\ \A k \in DOMAIN alts : k >= 2 => SharesAtMost70(router.optimal_path, alts[k])

\* A returned result where the first candidate was accepted, a candidate
\* without diversity was rejected after it, and a diverse one was accepted.
C19_Witness ==
  /\ router.pc = "done"
  /\ router.in.max_alternatives = MaxAlternatives
  /\ Len(router.result.alternative_paths) = 2
  /\ router.result.alternative_paths[1] # router.result.optimal_path

(***************************************************************************)
(* The admission order of create_mst_network                               *)
(***************************************************************************)

\* The candidate roads among the backbone edges still to be considered.
CandidatesLeft == SelectSeq(mst.sorted_edges, LAMBDA e : e.data.road_type = "potential")

\* cost / distance of a is at most that of b (distances are positive).
CostPerKmAtMost(a, b) == a.data.cost * b.data.distance <= b.data.cost * a.data.distance

\* C20: in the admission loop the candidate roads of the backbone are
\* considered in ascending order of construction cost per km, zero-cost
\* roads first.
C20_CostPerKmOrder ==
  mst.pc = "admit" =>
    \A i, j \in DOMAIN CandidatesLeft :
      i < j => CostPerKmAtMost(CandidatesLeft[i], CandidatesLeft[j])

\* The order of line 201: ascending cost per inhabitant of the two endpoints,
\* roads of cost 0 last.
C20_CostPerInhabitantOrder ==
  mst.pc = "admit" =>
    \A i, j \in DOMAIN mst.sorted_edges :
      i < j => ~FracLess(AdmissionKey(mst.in, mst.sorted_edges[j]),
                         AdmissionKey(mst.in, mst.sorted_edges[i]))

\* The admission rule of line 203: a candidate road is added exactly when
\* the committed cost including it does not exceed the cap.
C20_AdmittedWithinCap ==
  [][mst.pc = "admit" /\ mst.sorted_edges # <<>>
       /\ Head(mst.sorted_edges).data.road_type = "potential" =>
     LET cost == Head(mst.sorted_edges).data.cost
         fits == mst.in.max_budget = NoBudget \/ mst.budget_used + cost <= mst.in.max_budget
     IN (fits <=> Len(mst'.new_roads_added) = Len(mst.new_roads_added) + 1)
        /\ (~fits => mst'.budget_used = mst.budget_used)]_vars

(***************************************************************************)
(* The existing-road loop of create_mst_network (lines 51-65) on roads of  *)
(* every condition 1..10.                                                  *)
(***************************************************************************)
\* The longest road of the loop's tables, in km.
MaxDistance == 3

WeighTables ==
  {<<[FromID |-> 1, ToID |-> 2, Distance |-> d, Condition |-> c]>> :
      d \in 1..MaxDistance, c \in 1..10}
  \cup
  {<<[FromID |-> 1, ToID |-> 2, Distance |-> d, Condition |-> c],
     [FromID |-> 2, ToID |-> 11, Distance |-> 1, Condition |-> c2]>> :
      d \in 1..MaxDistance, c \in 1..10, c2 \in 1..10}

\* Line 55: (distance / avg_speed) * 60.  With avg_speed = 0.0 the division
\* raises ZeroDivisionError on Python floats and gives inf on numpy floats;
\* which of the two the row holds depends on the table's column types.
TravelTimeOutcomes(distance, avg_speed) ==
  IF avg_speed = 0
  THEN {[raised |-> "ZeroDivisionError", travel_time |-> 0],
        [raised |-> "", travel_time |-> Inf]}
  ELSE {[raised |-> "", travel_time |-> TravelTime(distance, avg_speed)]}

WeighStart(roads) ==
  [pc |-> "roads", in |-> [existing_roads |-> roads], k |-> 1, G |-> EmptyGraph,
   speeds |-> <<>>, raised |-> ""]

\* Lines 52-65: one iteration of the loop over existing_roads.
WeighRoad ==
  /\ mst.pc = "roads"
  /\ mst.k <= Len(mst.in.existing_roads)
  /\ LET road == mst.in.existing_roads[mst.k]
         avg_speed == AvgSpeed(road.Condition)
     IN \E out \in TravelTimeOutcomes(road.Distance, avg_speed) :
          IF out.raised # ""
          THEN mst' = [mst EXCEPT !.pc = "raised", !.raised = out.raised,
                         !.speeds = Append(@, avg_speed)]
          ELSE mst' = [mst EXCEPT !.k = @ + 1, !.speeds = Append(@, avg_speed),
                         !.G = AddEdge(@, road.FromID, road.ToID,
                                 [weight |-> out.travel_time, time_cost |-> out.travel_time,
                                  distance |-> road.Distance, road_type |-> "existing",
                                  cost |-> 0])]
  /\ UNCHANGED <<router, emerg, design, calls, preempt>>

\* The loop has visited every row.
WeighEnd ==
  /\ mst.pc = "roads"
  /\ mst.k > Len(mst.in.existing_roads)
  /\ mst' = [mst EXCEPT !.pc = "weighed"]
  /\ UNCHANGED <<router, emerg, design, calls, preempt>>

InitWeigh ==
  /\ mst \in {WeighStart(roads) : roads \in WeighTables}
  /\ router = Idle /\ emerg = Idle /\ design = Idle /\ calls = Idle /\ preempt = Idle

NextWeigh ==
  \/ WeighRoad
  \/ WeighEnd

SpecWeigh == InitWeigh /\ [][NextWeigh]_vars

\* C21: for every road condition in 1..10 the speed the loop derives lies
\* in [30, 60] km/h, the loop never raises, and every existing road's
\* travel-time weight is finite and strictly positive.
C21_SpeedInRange ==
  /\ mst.raised = ""
  /\ \A i \in DOMAIN mst.speeds : 30 <= mst.speeds[i] /\ mst.speeds[i] <= 60
  /\ \A e \in DOMAIN mst.G : mst.G[e].weight # Inf /\ mst.G[e].weight > 0

\* For the conditions 6..10 the speed is 30..54 km/h and the weight finite
\* and positive.
C21_GoodConditions ==
  \A i \in DOMAIN mst.speeds :
    mst.in.existing_roads[i].Condition >= 6 =>
      /\ 30 <= mst.speeds[i] /\ mst.speeds[i] <= 54
      /\ i < mst.k =>
           LET w == mst.G[EdgeKey(mst.in.existing_roads[i].FromID,
                                  mst.in.existing_roads[i].ToID)].weight
           IN w # Inf /\ w > 0

\* A road of condition 2..10 never divides by zero.
C21_NoZeroAbove1 ==
  mst.raised # "" \/ (\E e \in DOMAIN mst.G : mst.G[e].weight = Inf) =>
    \E i \in DOMAIN mst.speeds : mst.in.existing_roads[i].Condition = 1

(***************************************************************************)
(* The emergency router's baseline against optimize_traffic_flow           *)
(***************************************************************************)

\* optimize_traffic_flow's defaults: traffic and road quality considered.
RouterDefaults == [consider_road_quality |-> TRUE, consider_traffic |-> TRUE]

\* The graph optimize_traffic_flow builds from the tables of an emergency request.
RouterGraphOf(in) ==
  RouterGraph(RouterDefaults, TrafficDict(in.traffic_flow, EmptyDict), in.existing_roads,
              EmptyGraph)

EmergencyPlanned == emerg.pc \in {"a_star", "done"} /\ EmergencyConnected

\* C22: once plan_emergency_routes has built its graph for connected
\* endpoints, every edge's regular_time equals the time weight
\* optimize_traffic_flow gives that edge on the same tables with its
\* defaults, and the regular_time of the regular path equals optimal_time.
C22_SameBaseline ==
  EmergencyPlanned =>
    LET G == RouterGraphOf(emerg.in)
    IN /\ \A e \in DOMAIN emerg.G : emerg.G[e].regular_time = G[e].time
       /\ \A p \in ShortestPaths(G, emerg.in.from_id, emerg.in.to_id, "time") :
            emerg.regular_time = PathSum(G, p, "time")

\* The two weights agree on every road whose congestion ratio is below 0.7.
C22_SameBelowCongestion ==
  EmergencyPlanned =>
    LET G == RouterGraphOf(emerg.in)
        traffic_dict == TrafficDict(emerg.in.traffic_flow, EmptyDict)
    IN \A i \in DOMAIN emerg.in.existing_roads :
         LET road == emerg.in.existing_roads[i]
             last == \A j \in DOMAIN emerg.in.existing_roads :
                       j > i => EdgeKey(emerg.in.existing_roads[j].FromID,
                                        emerg.in.existing_roads[j].ToID)
                                  # EdgeKey(road.FromID, road.ToID)
         IN last /\ 10 * TrafficVolume(traffic_dict, road) < 7 * road.Capacity =>
              emerg.G[EdgeKey(road.FromID, road.ToID)].regular_time
                = G[EdgeKey(road.FromID, road.ToID)].time

(***************************************************************************)
(* Claims about the hub chosen by design_integrated_network                *)
(***************************************************************************)
\* The routes accepted before recommendation i was written.
AcceptedBefore(i) ==
  LET earlier == SelectSeq(SubSeq(design.recommendations, 1, i - 1),
                           LAMBDA r : r.kind = "proposed")
  IN [k \in DOMAIN earlier |-> earlier[k].path]

\* hub can be reached from center and no shortest path to it is rejected
\* for its length or for its overlap with the accepted routes.
HubEligible(G, center, hub, new_routes) ==
  /\ hub # center
  /\ hub \in node_connected_component(DOMAIN G, center)
  /\ \A path \in ShortestPaths(G, center, hub, "distance") :
       Len(path) >= 2 /\ ~TooSimilar(path, new_routes)

\* No hub of ranked is eligible and strictly nearer than the hub of the
\* accepted route i.
NoNearerHub(i, ranked) ==
  LET r == design.recommendations[i]
      center == cluster_center(design.in, r.cluster)
  IN \A h \in Range(ranked) :
       HubEligible(design.G, center, h, AcceptedBefore(i)) =>
         shortest_path_length(design.G, center, h) >= PathSum(design.G, r.path, "distance")

\* C23: for every accepted new route, no reachable, non-overlapping hub
\* ranked 1..10 by demand among the existing stops is strictly nearer to the
\* cluster's highest-population node than the hub the route connects to.
C23_NearestOfTopTen ==
  \A i \in DOMAIN design.recommendations :
    design.recommendations[i].kind = "proposed" =>
      NoNearerHub(i, transit_hub_ids(design.in))

\* What the code keeps of C23: the chosen hub is the nearest of the first
\* five hubs of the list the loop runs over.
C23_NearestOfFirstFive ==
  \A i \in DOMAIN design.recommendations :
    design.recommendations[i].kind = "proposed" =>
      NoNearerHub(i, SubSeq(design.hubs, 1, Min(5, Len(design.hubs))))

(***************************************************************************)
(* The traffic-signal page of the dashboard (app.py): the signal           *)
(* optimization tab and the emergency preemption tab of one session.       *)
(* The session is held in the variable preempt.  A signal plan is          *)
(* represented by the arguments of the call that computed it.              *)
(***************************************************************************)
\* The options of both "Time Period" select boxes (lines 1424 and 1552).
TimePeriods == <<"Morning Peak", "Afternoon", "Evening Peak", "Night">>

\* Lines 1428-1433 and 1554-1559.
time_column(time_period) ==
  CASE time_period = "Morning Peak" -> "Morning Peak(veh/h)"
    [] time_period = "Afternoon" -> "Afternoon(veh/h)"
    [] time_period = "Evening Peak" -> "Evening Peak(veh/h)"
    [] time_period = "Night" -> "Night(veh/h)"

\* The values of the "Minimum Intersection Importance" slider that are drawn;
\* 3 is its default (line 1436).
MinImportances == {0, 3}

NoSimulation == [called |-> FALSE]

\* A new session: both select boxes at index 0, an empty st.session_state.
SessionStart ==
  [pc |-> "session", signal_time_period |-> TimePeriods[1],
   emergency_time_period |-> TimePeriods[1], min_importance |-> 3,
   session_state |-> <<>>, simulated |-> NoSimulation]

\* Line 1424: the select box with key "signal_time_period".
SelectSignalPeriod ==
  /\ preempt.pc = "session"
  /\ \E i \in DOMAIN TimePeriods :
       preempt' = [preempt EXCEPT !.signal_time_period = TimePeriods[i]]
  /\ UNCHANGED <<mst, router, emerg, design, calls>>

\* Line 1436: the slider.
SelectImportance ==
  /\ preempt.pc = "session"
  /\ \E x \in MinImportances : preempt' = [preempt EXCEPT !.min_importance = x]
  /\ UNCHANGED <<mst, router, emerg, design, calls>>

\* Lines 1437-1452: the button "Optimize Traffic Signals".
ClickOptimize ==
  /\ preempt.pc = "session"
  /\ LET column == time_column(preempt.signal_time_period)
         important_intersections == [min_importance |-> preempt.min_importance]
         optimized_signals == [intersections |-> important_intersections,
                               time_column |-> column]
     IN preempt' = [preempt EXCEPT !.session_state =
                      [k \in {"time_column", "optimized_signals", "intersection_stats"} |->
                         CASE k = "time_column" -> [time_column |-> column]
                           [] k = "optimized_signals" -> optimized_signals
                           [] k = "intersection_stats" -> important_intersections]]
  /\ UNCHANGED <<mst, router, emerg, design, calls>>

\* Lines 1533-1534 and 1552-1553: the select box with key
\* "emergency_time_period" is only drawn once optimized_signals is stored.
SelectEmergencyPeriod ==
  /\ preempt.pc = "session"
  /\ "optimized_signals" \in DOMAIN preempt.session_state
  /\ \E i \in DOMAIN TimePeriods :
       preempt' = [preempt EXCEPT !.emergency_time_period = TimePeriods[i]]
  /\ UNCHANGED <<mst, router, emerg, design, calls>>

\* Lines 1533-1573: the button "Simulate Emergency Response" and the
\* arguments of the call of plan_emergency_routes it makes.
ClickSimulate ==
  /\ preempt.pc = "session"
  /\ "optimized_signals" \in DOMAIN preempt.session_state
  /\ preempt' = [preempt EXCEPT !.simulated =
                   [called |-> TRUE,
                    time_column |-> time_column(preempt.emergency_time_period),
                    intersections |-> preempt.session_state["intersection_stats"],
                    signals |-> preempt.session_state["optimized_signals"]]]
  /\ UNCHANGED <<mst, router, emerg, design, calls>>

InitSession ==
  /\ preempt = SessionStart
  /\ mst = Idle /\ router = Idle /\ emerg = Idle /\ design = Idle /\ calls = Idle

NextSession ==
  \/ SelectSignalPeriod
  \/ SelectImportance
  \/ ClickOptimize
  \/ SelectEmergencyPeriod
  \/ ClickSimulate

SpecSession == InitSession /\ [][NextSession]_vars

\* C24: the signal plans passed to plan_emergency_routes were computed for
\* the time bucket selected for that simulation, and no simulation runs
\* before a signal optimization has run.
C24_NeverStale ==
  preempt.simulated.called =>
    /\ "optimized_signals" \in DOMAIN preempt.session_state
    /\ preempt.simulated.signals.time_column = preempt.simulated.time_column

\* What the code keeps of C24: a simulation runs only after an optimization,
\* and it is passed the plans and the intersection set of one and the same
\* optimization run.
C24_AfterOptimization ==
  preempt.simulated.called =>
    /\ "optimized_signals" \in DOMAIN preempt.session_state
    /\ preempt.simulated.signals.intersections = preempt.simulated.intersections

(***************************************************************************)
(* Claims about a_star_search (emergency_response.py)                      *)
(***************************************************************************)
\* C25: once the has_path pre-check has passed, the frontier of
\* a_star_search is never exhausted (the fall-back to the regular path is
\* not taken), and the path returned leads from the origin to the
\* destination over edges of the searched graph.
C25_SearchSucceeds ==
  /\ emerg.pc = "a_star" => emerg.frontier # {}
  /\ (emerg.pc = "done" /\ EmergencyConnected) =>
       IsPathOf(emerg.G_emergency, emerg.result.emergency_path,
                emerg.in.from_id, emerg.in.to_id)

\* A search that expanded at least two nodes before it popped the goal and
\* returned a path of at least two edges.
C25_Witness ==
  /\ emerg.pc = "done"
  /\ EmergencyConnected
  /\ Cardinality(emerg.visited) >= 2
  /\ Len(emerg.result.emergency_path) >= 3
  /\ emerg.result.emergency_path[Len(emerg.result.emergency_path)] = emerg.in.to_id

\* The least total emergency_time of a path from the origin to the
\* destination in the searched graph.
LeastEmergencyTime ==
  PathSum(emerg.G_emergency,
          CHOOSE p \in ShortestPaths(emerg.G_emergency, emerg.in.from_id, emerg.in.to_id,
                                     "emergency_time") : TRUE,
          "emergency_time")

C27_OptimalNotAlternative ==
  router.pc = "done" =>
    \A k \in DOMAIN router.result.alternative_paths :
      router.result.alternative_paths[k] # router.result.optimal_path

\* What the code keeps of C27: an alternative found in an iteration that
\* removed an edge of the optimal path differs from the optimal path.
C27_WhileEdgesRemoved ==
  (router.pc = "done" /\ router.in.max_alternatives <= Len(router.result.optimal_path) - 1) =>
    \A k \in DOMAIN router.result.alternative_paths :
      router.result.alternative_paths[k] # router.result.optimal_path

(***************************************************************************)
(* real_time_signal_optimization (traffic_signals.py).  The call is held   *)
(* in the variable router.  Volumes are in veh/h and times in seconds; a   *)
(* quotient is kept as its numerator over a fixed denominator.             *)
(***************************************************************************)
\* The volumes of the selected time column that are drawn.
SignalVolumes == {0, 50, 1000, 1900, 4000}

\* traffic_flow: three rows around node 2, one of them shared with node 3.
SignalTrafficTables ==
  {<<[FromID |-> 1, ToID |-> 2, Volume |-> a], [FromID |-> 2, ToID |-> 3, Volume |-> b],
     [FromID |-> 11, ToID |-> 2, Volume |-> c]>> : a, b, c \in SignalVolumes}

\* existing_roads: the capacities of the roads that have a row.
SignalRoads == <<[FromID |-> 2, ToID |-> 1, Capacity |-> 2000]>>

\* The keys of the intersections dictionary, in its order.
SignalIntersections == {<<>>, <<2>>, <<3>>, <<2, 3>>}

SignalInputs ==
  {[intersections |-> nodes, traffic_flow |-> rows, existing_roads |-> SignalRoads] :
     nodes \in SignalIntersections, rows \in SignalTrafficTables}

\* Lines 64-66: the rows that touch node_id.
traffic_data(traffic_flow, node_id) ==
  SelectSeq(traffic_flow, LAMBDA row : row.ToID = node_id \/ row.FromID = node_id)

\* Lines 77-81: the capacity of the road of a row, 3000 when it has none.
RoadCapacity(existing_roads, row) ==
  LET road_data == SelectSeq(existing_roads, LAMBDA r :
                     \/ (r.FromID = row.FromID /\ r.ToID = row.ToID)
                     \/ (r.FromID = row.ToID /\ r.ToID = row.FromID))
  IN IF road_data # <<>> THEN road_data[1].Capacity ELSE 3000

\* Lines 90-95.
CycleTime(volume) ==
  IF volume < 2000 THEN 90 ELSE IF volume <= 5000 THEN 120 ELSE 180

\* Line 97.
min_green == 10

\* Lines 101-106: int(proportion * total_green), floored at min_green.
GreenTime(volume, volume_sum, total_green) ==
  IF volume_sum > 0 THEN Max(min_green, (volume * total_green) \div volume_sum)
  ELSE min_green

\* Lines 61-127 for one intersection: the entry signals[node_id].  saturation
\* is in 1/6000, avg_wait_time in 1/(12000 * len(phases)) s, efficiency a
\* fraction and queue_lengths in 1/3600 vehicles.
SignalPlan(in, node_id) ==
  LET rows == traffic_data(in.traffic_flow, node_id)
      volume_sum == SumSeq([k \in DOMAIN rows |-> rows[k].Volume])
      cycle_time == CycleTime(volume_sum)
      total_green == cycle_time - Len(rows) * 2
      phases == [k \in DOMAIN rows |->
                   [road_id |-> IF rows[k].ToID = node_id
                                THEN <<rows[k].FromID, rows[k].ToID>>
                                ELSE <<rows[k].ToID, rows[k].FromID>>,
                    volume |-> rows[k].Volume,
                    saturation |-> Min((rows[k].Volume * 6000)
                                         \div RoadCapacity(in.existing_roads, rows[k]), 6000),
                    urgency |-> 0,
                    green_time |-> GreenTime(rows[k].Volume, volume_sum, total_green)]]
  IN [cycle_time |-> cycle_time, phases |-> phases,
      performance |->
        [efficiency |-> IF volume_sum > 0
                        THEN [num |-> SumSeq([k \in DOMAIN phases |->
                                                phases[k].green_time * phases[k].volume]),
                              den |-> cycle_time * volume_sum]
                        ELSE [num |-> 1, den |-> 1],
         avg_wait_time |-> SumSeq([k \in DOMAIN phases |->
                                     phases[k].saturation * (cycle_time - phases[k].green_time)]),
         queue_lengths |-> [k \in DOMAIN phases |->
                              phases[k].volume * (cycle_time - phases[k].green_time)]]]

SignalStart(in) == [pc |-> "nodes", in |-> in, k |-> 1, signals |-> EmptyDict]

\* Lines 62-127: one iteration of the loop over the intersections.
SignalNode ==
  /\ router.pc = "nodes"
  /\ router.k <= Len(router.in.intersections)
  /\ LET node_id == router.in.intersections[router.k]
     IN router' = [router EXCEPT !.k = @ + 1,
                     !.signals = [n \in DOMAIN @ \cup {node_id} |->
                                    IF n = node_id THEN SignalPlan(router.in, node_id)
                                    ELSE @[n]]]
  /\ UNCHANGED <<mst, emerg, design, calls, preempt>>

\* Line 129.
SignalReturn ==
  /\ router.pc = "nodes"
  /\ router.k > Len(router.in.intersections)
  /\ router' = [router EXCEPT !.pc = "done"]
  /\ UNCHANGED <<mst, emerg, design, calls, preempt>>

InitSignals ==
  /\ router \in {SignalStart(in) : in \in SignalInputs}
  /\ mst = Idle /\ emerg = Idle /\ design = Idle /\ calls = Idle /\ preempt = Idle

NextSignals ==
  \/ SignalNode
  \/ SignalReturn

SpecSignals == InitSignals /\ [][NextSignals]_vars

\* The green times of a plan and the yellow time of its phases.
GreenSum(plan) == SumSeq([k \in DOMAIN plan.phases |-> plan.phases[k].green_time])

YellowSum(plan) == 2 * Len(plan.phases)

\* C28: in every plan each phase's green time is at least 10 s, and the green
\* times plus 2 s of yellow per phase do not exceed the plan's cycle_time.
C28_InsideCycle ==
  \A n \in DOMAIN router.signals :
    /\ \A k \in DOMAIN router.signals[n].phases :
         router.signals[n].phases[k].green_time >= min_green
    /\ GreenSum(router.signals[n]) + YellowSum(router.signals[n])
         <= router.signals[n].cycle_time

\* What the code keeps of C28: each green time is at least 10 s, the cycle
\* time is 90, 120 or 180 s, and a phase above the minimum has at most its
\* proportional share of the green budget.
C28_MinimumGreen ==
  \A n \in DOMAIN router.signals :
    /\ router.signals[n].cycle_time \in {90, 120, 180}
    /\ \A k \in DOMAIN router.signals[n].phases :
         LET g == router.signals[n].phases[k].green_time
         IN /\ g >= min_green
            /\ g > min_green =>
                 g <= router.signals[n].cycle_time - YellowSum(router.signals[n])

(***************************************************************************)
(* Claims about the stop sequence returned by optimize_public_transit      *)
(***************************************************************************)
\* The last call was optimize_public_transit and it returned a result.
TransitCalled ==
  /\ calls.pc = "ready" /\ calls.n > 0
  /\ calls.last.fn = "optimize_public_transit"
  /\ calls.result.raised = ""

\* The stops of the route the last call was asked to optimize.
CurrentRoute == RouteRows(calls.last.in.route_type, calls.last.in.route_id)[1].Stops

\* C29: for a route with at least two stops, whatever the goal, the
\* optimized stop sequence returned has at least two stops and at most one
\* stop more than the current route.
C29_StopCount ==
  (TransitCalled /\ Len(CurrentRoute) >= 2) =>
    /\ Len(calls.result.optimized_route) >= 2
    /\ Len(calls.result.optimized_route) <= Len(CurrentRoute) + 1

\* What the code keeps of C29: at most one stop more than the current route,
\* and exactly one more for the goal Passenger Capacity.
C29_AtMostOneMore ==
  (TransitCalled /\ Len(CurrentRoute) >= 2) =>
    /\ Len(calls.result.optimized_route) <= Len(CurrentRoute) + 1
    /\ calls.last.in.optimize_for = "Passenger Capacity" =>
         Len(calls.result.optimized_route) = Len(CurrentRoute) + 1

\* C30: with the goal Passenger Capacity the demand served by the optimized
\* stop sequence, as calculate_route_performance computes it, is at least the
\* demand served by the current stop sequence.
C30_DemandNotWorse ==
  (TransitCalled /\ calls.last.in.optimize_for = "Passenger Capacity") =>
    calls.result.optimized_performance.passengers
      >= calculate_route_performance(CurrentRoute, calls.last.in.route_type).demand

\* What the code keeps of C30: the stops after the first have the greatest
\* sum of node demands among the sequences that alternate between two stops.
C30_GreatestNodeDemand ==
  (TransitCalled /\ calls.last.in.optimize_for = "Passenger Capacity") =>
    LET route == calls.result.optimized_route
        total(r) == SumSeq([k \in 1..(Len(r) - 1) |-> node_demands(r[k + 1])])
    IN \A a, b \in Range(all_nodes) :
         (a # b /\ a # route[1]) =>
           total(route) >= total([k \in DOMAIN route |->
                                    IF k = 1 THEN route[1]
                                    ELSE IF k % 2 = 0 THEN a ELSE b])

=============================================================================
